---- MODULE Spec2Model ----
(***************************************************************************)
(* A model of the discovery-and-dispatch pipeline of the LNbits MCP        *)
(* server: the OpenAPI parser (tool naming, de-duplication), the tool      *)
(* registry (filtering, bulk load), the dispatcher (argument partition)    *)
(* and the server's list_tools / call_tool handlers.                       *)
(*                                                                         *)
(* Representation of text.  A string is a sequence of tokens; a token is   *)
(* a maximal run of alphanumeric characters (a word) or one separator      *)
(* character.  A URL path "/a/b" is the sequence of its segments, each a   *)
(* token sequence.  A tool name, a string over [a-z0-9_], is the sequence  *)
(* of the words between its underscores ("a__b" is <<"a","","b">>), so     *)
(* two tool names are equal as strings iff they are equal as sequences.    *)
(***************************************************************************)
EXTENDS Integers, Sequences, FiniteSets, TLC

VARIABLES
    config,          \* ToolRegistry.config : RegistryConfig
    operations,      \* ToolRegistry._operations : dict in insertion order
    last_refresh,    \* ToolRegistry.last_refresh (0 = never, else a clock reading)
    loadInput,       \* the list handed to the latest ToolRegistry.load
    loadCount,       \* the value the latest ToolRegistry.load returned
    specDoc,         \* the OpenAPI document handed to the parser
    parsed,          \* the list OpenAPIParser._parse_spec returned
    phase,           \* how far the parse-then-load pipeline has run
    dispatchOp,      \* the operation handed to the dispatcher
    arguments,       \* the arguments handed to the dispatcher
    separated,       \* what Dispatcher._separate_params returned
    access_token,    \* the access_token handed to Dispatcher.dispatch
    configured_token, \* the user-level token the server's configuration holds
    sentRequest,     \* what Dispatcher.dispatch handed to client._request
    returned,        \* what the transport gave back and what dispatch made of it
    discovery_done,  \* LNbitsMCPServer._discovery_done
    tasks,           \* the request each server task is handling and where it waits
    response,        \* the latest response a handler returned to the host
    lastAttempt,     \* how the latest discovery attempt ended
    schemaIn,        \* the schema handed to ToolRegistry._sanitize_schema
    sanitized,       \* what _sanitize_schema returned, and what it returned for that
    schemaOp,        \* the operation handed to ToolRegistry._build_input_schema
    inputSchema,     \* what _build_input_schema returned
    resolveIn,       \* the schema and the schema set handed to _resolve_schema
    pendingCalls,    \* the calls of _resolve_schema still to run, innermost first
    resolvedSchema   \* what the outermost _resolve_schema returned

vars == <<config, operations, last_refresh, loadInput, loadCount, specDoc, parsed, phase,
          dispatchOp, arguments, separated, access_token, sentRequest, returned,
          configured_token,
          discovery_done, tasks, response, lastAttempt,
          schemaIn, sanitized, schemaOp, inputSchema,
          resolveIn, pendingCalls, resolvedSchema>>

registryVars == <<config, operations, last_refresh, loadInput, loadCount>>
parserVars == <<specDoc, parsed, phase>>
dispatchVars == <<dispatchOp, arguments, separated, access_token, sentRequest, returned,
                  configured_token>>
serverVars == <<discovery_done, tasks, response, lastAttempt>>
schemaVars == <<schemaIn, sanitized, schemaOp, inputSchema>>
resolverVars == <<resolveIn, pendingCalls, resolvedSchema>>

\* ------------------------------------------------------------------ bounds

\* longest operation list handed to ToolRegistry.load
MaxOps == 2
\* most paths of an OpenAPI document
MaxPaths == 2
\* most keys of one path item
MaxMethods == 2
\* most declared parameters of the operation handed to the dispatcher
MaxParams == 2
\* handlers the host runs at once where their interleaving is what is checked
NumHandlers == 2
\* requests the host has in flight at once
NumTasks == 1
\* largest max_tools of the non-default registry configurations
MaxCap == 2
\* last reading of the clock behind time.time()
MaxClock == 2
\* most segments of a path handed to the extension detection
MaxSegments == 3
\* how deep the schemas handed to the sanitizer nest
MaxDepth == 1

\* ------------------------------------------------------------------ text

\* Python's None, where a field is Optional[str]
None == <<"<None>">>

\* Python's None, where a field is Optional[list[str]]
NoneList == <<None>>

Separators == {" ", "-", ".", "_", "{", "}", "!"}

\* str.lower() on a word
Lower(w) ==
    CASE w = "Wallet" -> "wallet"
      [] w = "Admin" -> "admin"
      [] w = "UI" -> "ui"
      [] w = "Payments" -> "payments"
      [] OTHER -> w

\* str.upper() on an HTTP method
Upper(m) ==
    CASE m = "get" -> "GET"
      [] m = "post" -> "POST"
      [] m = "put" -> "PUT"
      [] m = "patch" -> "PATCH"
      [] m = "delete" -> "DELETE"
      [] OTHER -> m

\* the words a is a proper character prefix of
CharPrefixOf(a, b) == a = b \/ <<a, b>> \in {<<"docs", "docsify">>, <<"doc", "docs">>}

Range(s) == {s[i] : i \in 1..Len(s)}

SeqsUpTo(S, n) == UNION {[1..k -> S] : k \in 0..n}

\* ------------------------------------------------------------------ operations

\* DiscoveredOperation; the fields the registry and the dispatcher read
DiscoveredOperation(name, method, path, tag, parameters, ext) ==
    [tool_name |-> name, method |-> method, path |-> path, tag |-> tag,
     parameters |-> parameters, extension_name |-> ext]

\* curated_descriptions.SKIP_TAGS
SKIP_TAGS == {<<"Admin", " ", "UI">>, <<"Webpush">>, <<"Websocket">>}

\* RegistryConfig.max_tools default
DefaultMaxTools == 200

\* RegistryConfig()
RegistryConfig ==
    [exclude_methods |-> <<"DELETE">>,
     exclude_paths |-> << <<"docs">>, <<"openapi", ".", "json">>, <<"redoc">> >>,
     include_extensions |-> NoneList,
     exclude_extensions |-> NoneList,
     max_tools |-> DefaultMaxTools]

\* str.startswith: the path string "/seg/..." begins with "/" + prefix, where
\* prefix is one segment's text
StartsWith(path, prefix) ==
    /\ Len(path) >= 1
    /\ Len(path[1]) >= Len(prefix)
    /\ \A i \in 1..(Len(prefix) - 1) : path[1][i] = prefix[i]
    /\ Len(prefix) >= 1 =>
          \/ CharPrefixOf(prefix[Len(prefix)], path[1][Len(prefix)])

\* "/api/" in path
ContainsApi(path) == \E i \in 1..(Len(path) - 1) : path[i] = <<"api">>

\* a str | None value that is truthy
Truthy(s) == s # None /\ s # <<>>

\* ------------------------------------------------------------------ registry

\* ToolRegistry._should_skip, "skip by tag"
SkipByTag(op) == op.tag \in SKIP_TAGS

\* the method rule left out
SkipByMethodNever(cfg, op) == FALSE

\* ToolRegistry._should_skip, "skip by HTTP method"
SkipByMethod(cfg, op) ==
    Upper(op.method) \in {Upper(cfg.exclude_methods[i]) : i \in 1..Len(cfg.exclude_methods)}

\* ToolRegistry._should_skip, "skip by path prefix"
SkipByPath(cfg, op) ==
    \E i \in 1..Len(cfg.exclude_paths) : StartsWith(op.path, cfg.exclude_paths[i])

\* ToolRegistry._should_skip, "skip non-API paths"
SkipNonApi(op) == ~ContainsApi(op.path)

\* the extension rule with the include-list test left out
SkipByExtensionNoInclude(cfg, op) ==
    /\ Truthy(op.extension_name)
    /\ cfg.exclude_extensions # NoneList
    /\ op.extension_name \in Range(cfg.exclude_extensions)

\* ToolRegistry._should_skip, "extension whitelist/blacklist"
SkipByExtension(cfg, op) ==
    /\ Truthy(op.extension_name)
    /\ \/ /\ cfg.include_extensions # NoneList
          /\ op.extension_name \notin Range(cfg.include_extensions)
       \/ /\ cfg.exclude_extensions # NoneList
          /\ op.extension_name \in Range(cfg.exclude_extensions)

\* ToolRegistry._should_skip
ShouldSkip(cfg, op) ==
    \/ SkipByTag(op)
    \/ SkipByMethod(cfg, op)
    \/ SkipByPath(cfg, op)
    \/ SkipNonApi(op)
    \/ SkipByExtension(cfg, op)

\* dict.__setitem__ on a dict kept as the sequence of its values in insertion
\* order: an existing key keeps its place and takes the new value
DictSet(d, op) ==
    IF \E i \in 1..Len(d) : d[i].tool_name = op.tool_name
    THEN [i \in 1..Len(d) |-> IF d[i].tool_name = op.tool_name THEN op ELSE d[i]]
    ELSE Append(d, op)

\* the for loop of ToolRegistry.load from position i on
RECURSIVE LoadLoop(_, _, _, _, _)
LoadLoop(cfg, ops, i, d, accepted) ==
    IF i > Len(ops) THEN [operations |-> d, accepted |-> accepted]
    ELSE IF ShouldSkip(cfg, ops[i]) THEN LoadLoop(cfg, ops, i + 1, d, accepted)
    ELSE IF accepted + 1 >= cfg.max_tools
         THEN [operations |-> DictSet(d, ops[i]), accepted |-> accepted + 1]
         ELSE LoadLoop(cfg, ops, i + 1, DictSet(d, ops[i]), accepted + 1)

\* ToolRegistry.load with no self._operations.clear()
LoadResultMerging(cfg, old, ops) == LoadLoop(cfg, ops, 1, old, 0)

\* ToolRegistry.load: the map it leaves and the count it returns
LoadResult(cfg, old, ops) == LoadLoop(cfg, ops, 1, <<>>, 0)

\* time.time(): later than every earlier reading, up to the model's clock bound
Now(prev) == IF prev < MaxClock THEN prev + 1 ELSE prev

\* ToolRegistry.tool_names
ToolNames(d) == {d[i].tool_name : i \in 1..Len(d)}

\* ToolRegistry.tool_count
ToolCount(d) == Len(d)

\* ------------------------------------------------------------------ schemas

\* a JSON value: its kind and its content. A mapping's content is a function
\* on its keys, a list's a sequence, a float's ten times its value
JObject(f) == <<"object", f>>
JArray(l) == <<"array", l>>
JString(text) == <<"string", text>>
JInt(n) == <<"int", n>>
JFloat(tenths) == <<"float", tenths>>
JBool(b) == <<"bool", b>>
JNull == <<"null", 0>>

\* isinstance(value, dict), isinstance(value, list), isinstance(value, float)
IsDict(v) == v[1] = "object"
IsList(v) == v[1] = "array"
IsFloat(v) == v[1] = "float"

\* bool(value)
JTruthy(v) ==
    CASE v[1] = "bool" -> v[2]
      [] v[1] \in {"int", "float"} -> v[2] # 0
      [] v[1] = "string" -> v[2] # ""
      [] v[1] = "array" -> v[2] # <<>>
      [] v[1] = "null" -> FALSE
      [] OTHER -> DOMAIN v[2] # {}

\* ToolRegistry._ALLOWED_KEYWORDS
ALLOWED_KEYWORDS ==
    {"type", "properties", "required", "items", "enum", "anyOf", "oneOf", "allOf",
     "minimum", "maximum", "exclusiveMinimum", "exclusiveMaximum", "pattern", "format",
     "description", "default", "additionalProperties", "minItems", "maxItems",
     "minLength", "maxLength", "const", "prefixItems", "$ref"}

\* ToolRegistry._NUMERIC_KEYWORDS
NUMERIC_KEYWORDS ==
    {"minimum", "maximum", "exclusiveMinimum", "exclusiveMaximum", "minItems", "maxItems",
     "minLength", "maxLength"}

\* int(value) if value == int(value) else value
CoerceFloat(v) == IF v[2] % 10 = 0 THEN JInt(v[2] \div 10) ELSE v

\* the nullable conversion leaving the type in place
NullableToAnyOfKeepingType(result, is_nullable) ==
    IF is_nullable /\ "type" \in DOMAIN result
    THEN [k \in DOMAIN result \cup {"anyOf"} |->
             IF k = "anyOf"
             THEN JArray(<<JObject([t \in {"type"} |-> result["type"]]),
                           JObject([t \in {"type"} |-> JString("null")])>>)
             ELSE result[k]]
    ELSE result

\* the nullable conversion writing the null alternative as an enum of null
NullableToAnyOfEnumNull(result, is_nullable) ==
    IF is_nullable /\ "type" \in DOMAIN result
    THEN [k \in (DOMAIN result \ {"type"}) \cup {"anyOf"} |->
             IF k = "anyOf"
             THEN JArray(<<JObject([t \in {"type"} |-> result["type"]]),
                           JObject([t \in {"enum"} |-> JArray(<<JNull>>)])>>)
             ELSE result[k]]
    ELSE result

\* _sanitize_schema, "convert nullable to anyOf"
NullableToAnyOf(result, is_nullable) ==
    IF is_nullable /\ "type" \in DOMAIN result
    THEN [k \in (DOMAIN result \ {"type"}) \cup {"anyOf"} |->
             IF k = "anyOf"
             THEN JArray(<<JObject([t \in {"type"} |-> result["type"]]),
                           JObject([t \in {"type"} |-> JString("null")])>>)
             ELSE result[k]]
    ELSE result

\* _sanitize_schema, "ensure sub-schemas have type info"
EnsureTypeInfo(result) ==
    IF /\ DOMAIN result # {}
       /\ DOMAIN result \cap {"type", "anyOf", "oneOf", "allOf", "$ref"} = {}
       /\ DOMAIN result \cap {"enum", "description"} # {}
    THEN [k \in DOMAIN result \cup {"type"} |->
             IF k = "type" THEN JString("string") ELSE result[k]]
    ELSE result

RECURSIVE SanitizeSchema(_)

\* the if / elif chain of the sanitizer's loop: what result[key] becomes
SanitizeValue(key, value) ==
    IF key = "properties" /\ IsDict(value)
    THEN JObject([k \in DOMAIN value[2] |->
                     IF IsDict(value[2][k]) THEN JObject(SanitizeSchema(value[2][k][2]))
                     ELSE value[2][k]])
    ELSE IF key = "items" /\ IsDict(value) THEN JObject(SanitizeSchema(value[2]))
    ELSE IF key \in {"anyOf", "oneOf", "allOf"} /\ IsList(value)
    THEN JArray([i \in 1..Len(value[2]) |->
                    IF IsDict(value[2][i]) THEN JObject(SanitizeSchema(value[2][i][2]))
                    ELSE value[2][i]])
    ELSE IF key = "additionalProperties" /\ IsDict(value)
    THEN JObject(SanitizeSchema(value[2]))
    ELSE IF key \in NUMERIC_KEYWORDS /\ IsFloat(value) THEN CoerceFloat(value)
    ELSE value

\* ToolRegistry._sanitize_schema
SanitizeSchema(schema) ==
    LET is_nullable == "nullable" \in DOMAIN schema /\ JTruthy(schema["nullable"])
        result == [k \in DOMAIN schema \cap ALLOWED_KEYWORDS |-> SanitizeValue(k, schema[k])]
    IN  EnsureTypeInfo(NullableToAnyOf(result, is_nullable))

\* dict | {key: value}
SetKey(d, key, value) == [k \in DOMAIN d \cup {key} |-> IF k = key THEN value ELSE d[k]]

\* the empty dict
EmptyDict == [k \in {} |-> JNull]

\* ToolRegistry._extract_prop
ExtractProp(schema) ==
    LET prepared ==
            IF "description" \notin DOMAIN schema /\ "title" \in DOMAIN schema
            THEN [k \in (DOMAIN schema \ {"title"}) \cup {"description"} |->
                     IF k = "description" THEN schema["title"] ELSE schema[k]]
            ELSE schema
        result == SanitizeSchema(prepared)
    IN  IF DOMAIN result \cap {"type", "anyOf", "oneOf", "allOf", "enum", "$ref"} = {}
        THEN SetKey(result, "type", JString("string"))
        ELSE result

\* the fields of a DiscoveredOperation that _build_input_schema reads
SchemaOperation(parameters, request_body_schema) ==
    [parameters |-> parameters, request_body_schema |-> request_body_schema]

\* _build_input_schema, hidden_params
hidden_params == {"usr", "cookie_access_token"}

\* properties and required before any parameter is visited
NoProperties == [properties |-> EmptyDict, required |-> <<>>]

\* one round of the loop over op.parameters that does not look at the location
AddParameterAnyLocation(acc, param) ==
    LET name == IF "name" \in DOMAIN param THEN param["name"][2] ELSE ""
        schema == IF "schema" \in DOMAIN param THEN param["schema"][2]
                  ELSE [k \in {"type"} |-> JString("string")]
    IN  IF name \in hidden_params THEN acc
        ELSE [properties |-> SetKey(acc.properties, name, JObject(ExtractProp(schema))),
              required |-> IF "required" \in DOMAIN param /\ JTruthy(param["required"])
                           THEN Append(acc.required, JString(name))
                           ELSE acc.required]

\* one round of the loop over op.parameters
AddParameter(acc, param) ==
    LET name == IF "name" \in DOMAIN param THEN param["name"][2] ELSE ""
        schema == IF "schema" \in DOMAIN param THEN param["schema"][2]
                  ELSE [k \in {"type"} |-> JString("string")]
    IN  IF name \in hidden_params THEN acc
        ELSE IF "in" \in DOMAIN param /\ param["in"] = JString("cookie") THEN acc
        ELSE [properties |-> SetKey(acc.properties, name, JObject(ExtractProp(schema))),
              required |-> IF "required" \in DOMAIN param /\ JTruthy(param["required"])
                           THEN Append(acc.required, JString(name))
                           ELSE acc.required]

\* the loop over op.parameters
RECURSIVE AddParameters(_, _)
AddParameters(acc, parameters) ==
    IF parameters = <<>> THEN acc
    ELSE AddParameters(AddParameter(acc, Head(parameters)), Tail(parameters))

\* value in list
InList(value, l) == \E i \in 1..Len(l) : l[i] = value

\* the loop over body_props.items(); a mapping is held without its order, and the
\* loop visits the names in one fixed order
RECURSIVE AddBodyProps(_, _, _, _)
AddBodyProps(acc, body_props, body_required, names) ==
    IF names = {} THEN acc
    ELSE LET prop_name == CHOOSE n \in names : TRUE
             next == [properties |-> SetKey(acc.properties, prop_name,
                                            JObject(ExtractProp(body_props[prop_name][2]))),
                      required |-> IF InList(JString(prop_name), body_required)
                                   THEN Append(acc.required, JString(prop_name))
                                   ELSE acc.required]
         IN  AddBodyProps(next, body_props, body_required, names \ {prop_name})

\* ToolRegistry._build_input_schema
BuildInputSchema(op) ==
    LET params == AddParameters(NoProperties, op.parameters)
        body == op.request_body_schema
        body_props == IF "properties" \in DOMAIN body[2] THEN body[2]["properties"][2]
                      ELSE EmptyDict
        body_required == IF "required" \in DOMAIN body[2] THEN body[2]["required"][2]
                         ELSE <<>>
        all == IF JTruthy(body)
               THEN AddBodyProps(params, body_props, body_required, DOMAIN body_props)
               ELSE params
    IN  [k \in {"type", "properties"} \cup (IF all.required # <<>> THEN {"required"} ELSE {}) |->
            CASE k = "type" -> JString("object")
              [] k = "properties" -> JObject(all.properties)
              [] OTHER -> JArray(all.required)]

\* no schema, no sanitizer result, no operation
NoSchema == [k \in {"<none>"} |-> JNull]
NotSanitized == [calls |-> 0, once |-> NoSchema, twice |-> NoSchema]
NoSchemaOp == SchemaOperation(<<>>, JNull)

\* ------------------------------------------------------------------ administrative tools

\* meta_tools.META_TOOL_DEFINITIONS, the names in order
META_TOOL_DEFINITIONS ==
    << <<"configure", "lnbits">>, <<"test", "connection">>, <<"get", "configuration">>,
       <<"refresh", "tools">>, <<"list", "extensions">>,
       <<"pay", "lightning", "address">> >>

\* meta_tools.META_TOOL_NAMES
META_TOOL_NAMES == Range(META_TOOL_DEFINITIONS)

\* ------------------------------------------------------------------ parser

\* openapi_parser._METHOD_ACTIONS
METHOD_ACTIONS ==
    [get |-> "get", post |-> "create", put |-> "update", patch |-> "update",
     delete |-> "delete"]

IsWord(tok) == tok \notin Separators

\* openapi_parser._slugify: lower-case, every run of characters outside
\* [a-z0-9] becomes one "_", leading and trailing "_" go; the result is given
\* as the words between its underscores (none for the empty slug)
Slugify(text) ==
    LET words == SelectSeq(text, IsWord)
    IN  [i \in 1..Len(words) |-> Lower(words[i])]

\* the words between the underscores of a slug standing in a longer name: the
\* empty slug is one empty word
NameWords(slug) == IF slug = <<>> THEN <<"">> ELSE slug

RECURSIVE DropLeadingEmpty(_)
DropLeadingEmpty(segs) ==
    IF segs # <<>> /\ Head(segs) = <<>> THEN DropLeadingEmpty(Tail(segs)) ELSE segs

RECURSIVE DropTrailingEmpty(_)
DropTrailingEmpty(segs) ==
    IF segs # <<>> /\ segs[Len(segs)] = <<>>
    THEN DropTrailingEmpty(SubSeq(segs, 1, Len(segs) - 1))
    ELSE segs

\* path.strip("/").split("/"): "/" alone splits into one empty segment
StripSplit(path) ==
    LET inner == DropTrailingEmpty(DropLeadingEmpty(path))
    IN  IF inner = <<>> THEN << <<>> >> ELSE inner

\* s.startswith("{")
IsPathParam(seg) == seg # <<>> /\ seg[1] = "{"

\* _build_tool_name joining only the parts that are not empty
BuildToolNameSkippingEmpty(tag, method, path) ==
    LET tag_slug == Slugify(tag)
        parts == StripSplit(path)
        segments == SelectSeq(parts, LAMBDA sg : ~IsPathParam(sg))
        resource_slug ==
            IF segments # <<>> THEN Slugify(segments[Len(segments)]) ELSE <<"resource">>
        action ==
            IF /\ method = "get"
               /\ ~IsPathParam(parts[Len(parts)])
               /\ resource_slug # <<"wallet">>
            THEN "list"
            ELSE METHOD_ACTIONS[method]
    IN  tag_slug \o <<action>> \o resource_slug

\* OpenAPIParser._build_tool_name: "{tag_slug}_{action}_{resource_slug}"
BuildToolName(tag, method, path) ==
    LET tag_slug == Slugify(tag)
        parts == StripSplit(path)
        segments == SelectSeq(parts, LAMBDA sg : ~IsPathParam(sg))
        resource_slug ==
            IF segments # <<>> THEN Slugify(segments[Len(segments)]) ELSE <<"resource">>
        action ==
            IF /\ method = "get"
               /\ ~IsPathParam(parts[Len(parts)])
               /\ resource_slug # <<"wallet">>
            THEN "list"
            ELSE METHOD_ACTIONS[method]
    IN  NameWords(tag_slug) \o <<action>> \o NameWords(resource_slug)

\* OpenAPIParser._detect_extension
DetectExtension(path) ==
    LET parts == StripSplit(path)
    IN  IF Len(parts) >= 3 /\ parts[2] = <<"api">> THEN parts[1] ELSE None

\* _resolve_schema, the depth past which a schema is returned as it is
MaxResolveDepth == 15

\* a string holding a reference, as its pieces between slashes
JRef(segments) == <<"ref", segments>>

\* schema["$ref"].split("/")[-1]
RefName(ref) == ref[2][Len(ref[2])]

\* schemas.get(ref_name, {})
SchemasGet(schemas, ref_name) ==
    IF ref_name \in DOMAIN schemas THEN schemas[ref_name] ELSE EmptyDict

\* the members of a set one after the other
RECURSIVE InOrder(_)
InOrder(S) ==
    IF S = {} THEN <<>>
    ELSE LET x == CHOOSE y \in S : TRUE IN <<x>> \o InOrder(S \ {x})

\* the calls one call makes on the parts of a schema that is not a reference
PartCalls(schema, depth) ==
    LET props == IF "properties" \in DOMAIN schema THEN schema["properties"][2] ELSE EmptyDict
        names == InOrder(DOMAIN props)
        members(key) == IF key \in DOMAIN schema THEN schema[key][2] ELSE <<>>
        of(key) == [i \in 1..Len(members(key)) |-> <<members(key)[i][2], depth + 1>>]
    IN  [i \in 1..Len(names) |-> <<props[names[i]][2], depth + 1>>]
        \o (IF "items" \in DOMAIN schema THEN << <<schema["items"][2], depth + 1>> >> ELSE <<>>)
        \o of("allOf") \o of("anyOf") \o of("oneOf")

\* the calls of a _resolve_schema that follows a reference at its own depth
NestedCallsRefSameDepth(schema, schemas, depth) ==
    IF depth > MaxResolveDepth THEN <<>>
    ELSE IF "$ref" \in DOMAIN schema
    THEN << <<SchemasGet(schemas, RefName(schema["$ref"])), depth>> >>
    ELSE PartCalls(schema, depth)

\* the calls _resolve_schema(schema, schemas, depth) makes itself, each with
\* its schema and its depth, in the order it makes them
NestedCalls(schema, schemas, depth) ==
    IF depth > MaxResolveDepth THEN <<>>
    ELSE IF "$ref" \in DOMAIN schema
    THEN << <<SchemasGet(schemas, RefName(schema["$ref"])), depth + 1>> >>
    ELSE PartCalls(schema, depth)

\* OpenAPIParser._resolve_schema; s is the schema, taken as a value once
RECURSIVE ResolveSchema(_, _, _)
ResolveSchema(schema, schemas, depth) ==
    CHOOSE result \in
        { IF depth > MaxResolveDepth THEN s
          ELSE IF "$ref" \in DOMAIN s
          THEN ResolveSchema(SchemasGet(schemas, RefName(s["$ref"])), schemas, depth + 1)
          ELSE [key \in DOMAIN s |->
                   IF key = "properties"
                   THEN JObject([k \in DOMAIN s[key][2] |->
                                    JObject(ResolveSchema(s[key][2][k][2], schemas, depth + 1))])
                   ELSE IF key = "items"
                   THEN JObject(ResolveSchema(s[key][2], schemas, depth + 1))
                   ELSE IF key \in {"allOf", "anyOf", "oneOf"}
                   THEN JArray([i \in 1..Len(s[key][2]) |->
                                   JObject(ResolveSchema(s[key][2][i][2], schemas, depth + 1))])
                   ELSE s[key]] :
          s \in {schema} } : TRUE

\* str(n) for a one-digit count
Str(n) == <<"0", "1", "2", "3", "4", "5", "6", "7", "8", "9">>[n + 1]

\* the (path, key, operation object) triples of a document in the order the two
\* nested loops of _parse_spec visit them
RECURSIVE Entries(_)
Entries(doc) ==
    IF doc = <<>> THEN <<>>
    ELSE [i \in 1..Len(Head(doc).item) |->
             [path |-> Head(doc).path,
              method |-> Head(doc).item[i].key,
              op |-> Head(doc).item[i]]]
         \o Entries(Tail(doc))

\* seen_names.get(raw_name), 0 when the name is new
Seen(seen, raw) == IF raw \in DOMAIN seen THEN seen[raw] ELSE 0

\* the loop body of _parse_spec from entry i on; seen is seen_names
RECURSIVE ParseLoop(_, _, _, _)
ParseLoop(entries, i, seen, out) ==
    IF i > Len(entries) THEN out
    ELSE LET e == entries[i] IN
         IF e.method \notin DOMAIN METHOD_ACTIONS
         THEN ParseLoop(entries, i + 1, seen, out)
         ELSE LET tag == IF e.op.tags # <<>> THEN e.op.tags[1] ELSE <<"other">>
                  raw_name == BuildToolName(tag, e.method, e.path)
                  n == Seen(seen, raw_name) + 1
                  tool_name == IF n > 1 THEN raw_name \o <<Str(n)>> ELSE raw_name
                  seen2 == [k \in DOMAIN seen \cup {raw_name} |->
                               IF k = raw_name THEN n ELSE seen[k]]
              IN  ParseLoop(entries, i + 1, seen2,
                            Append(out, DiscoveredOperation(
                                tool_name, Upper(e.method), e.path, tag,
                                e.op.parameters, DetectExtension(e.path))))

\* OpenAPIParser._parse_spec
ParseSpec(doc) == ParseLoop(Entries(doc), 1, <<>>, <<>>)

\* ------------------------------------------------------------------ parser: inputs

UrlLinks == << <<"api">>, <<"v1">>, <<"links">> >>
UrlLinks2 == << <<"api">>, <<"v1">>, <<"links", "-", "2">> >>
UrlExtensions == << <<"api">>, <<"v1">>, <<"extensions">> >>
UrlLink == << <<"lnurlp">>, <<"api">>, <<"v1">>, <<"links">>, <<"{", "id", "}">> >>

DocPaths == {UrlLinks, UrlLinks2, UrlExtensions, UrlLink}

\* keys of a path item: three HTTP methods
DocKeys == {"get", "put", "patch"}

\* the tags lists of an operation object: none, a plain tag, a tag with an
\* empty slug
DocTags == {<<>>, << <<"Wallet">> >>, << <<"!">> >>}

Distinct(s) == \A i, j \in 1..Len(s) : s[i] = s[j] => i = j

KeySeqs == {ks \in SeqsUpTo(DocKeys, MaxMethods) : ks # <<>> /\ Distinct(ks)}

\* the path items whose operations all carry the tags list t
PathItems(t) ==
    {[path |-> p,
      item |-> [i \in 1..Len(ks) |-> [key |-> ks[i], tags |-> t, parameters |-> <<>>]]] :
        p \in DocPaths, ks \in KeySeqs}

\* the documents: up to MaxPaths distinct paths, one tags list per document
SpecDocs ==
    UNION {{d \in SeqsUpTo(PathItems(t), MaxPaths) :
                \A i, j \in 1..Len(d) : d[i].path = d[j].path => i = j} :
           t \in DocTags}

\* ------------------------------------------------------------------ dispatcher

\* a key a parameter descriptor does not have
Absent == "<absent>"

\* param.get("in", "query")
ParamIn(param) == IF param.in = Absent THEN "query" ELSE param.in

\* param.get("name", "")
ParamName(param) == IF param.name = Absent THEN "" ELSE param.name

\* _separate_params, the set path_params
PathParams(op) ==
    {ParamName(op.parameters[i]) :
        i \in {j \in 1..Len(op.parameters) : ParamIn(op.parameters[j]) = "path"}}

\* _separate_params, the set query_params_names
QueryParamsNames(op) ==
    {ParamName(op.parameters[i]) :
        i \in {j \in 1..Len(op.parameters) : ParamIn(op.parameters[j]) = "query"}}

\* _separate_params testing the query names before the path names
SeparateParamsQueryFirst(op, args) ==
    LET q == {k \in DOMAIN args : k \in QueryParamsNames(op)}
        b == {k \in DOMAIN args : k \notin QueryParamsNames(op) /\ k \notin PathParams(op)}
    IN  [query |-> [k \in q |-> args[k]], body |-> [k \in b |-> args[k]]]

\* Dispatcher._separate_params: the (query, body) pair
SeparateParams(op, args) ==
    LET q == {k \in DOMAIN args : k \notin PathParams(op) /\ k \in QueryParamsNames(op)}
        b == {k \in DOMAIN args : k \notin PathParams(op) /\ k \notin QueryParamsNames(op)}
    IN  [query |-> [k \in q |-> args[k]], body |-> [k \in b |-> args[k]]]

\* an argument value: the name of its Python type and its str()
StrValue(text) == [kind |-> "str", text |-> text]
IntValue(digit) == [kind |-> "int", text |-> <<digit>>]
BoolValue(b) == [kind |-> "bool", text |-> IF b THEN <<"True">> ELSE <<"False">>]
NoneValue == [kind |-> "NoneType", text |-> <<"None">>]

\* str(value)
PyStr(v) == v.text

\* bool(value)
PyTruthy(v) ==
    CASE v.kind = "str" -> v.text # <<>>
      [] v.kind = "int" -> v.text # <<"0">>
      [] v.kind = "bool" -> v.text = <<"True">>
      [] OTHER -> FALSE

\* the text of a URL path given by its segments: "/" before each segment
RECURSIVE PathText(_)
PathText(path) == IF path = <<>> THEN <<>> ELSE <<"/">> \o Head(path) \o PathText(Tail(path))

\* a token the pattern \w+ matches
IsNameToken(tok) == tok \notin Separators \cup {"/", ":", "%"}

\* re.sub(r"\{(\w+)\}", _replacer, path_template) from token i on: one pass,
\* left to right, a replacement is not scanned again
RECURSIVE SubstituteFrom(_, _, _)
SubstituteFrom(text, args, i) ==
    IF i > Len(text) THEN <<>>
    ELSE IF /\ text[i] = "{"
            /\ i + 2 <= Len(text)
            /\ IsNameToken(text[i + 1])
            /\ text[i + 2] = "}"
         THEN (IF text[i + 1] \in DOMAIN args
               THEN PyStr(args[text[i + 1]])
               ELSE SubSeq(text, i, i + 2))
              \o SubstituteFrom(text, args, i + 3)
         ELSE <<text[i]>> \o SubstituteFrom(text, args, i + 1)

\* _replacer returning the empty string for a missing key
RECURSIVE SubstituteDroppingMissing(_, _, _)
SubstituteDroppingMissing(text, args, i) ==
    IF i > Len(text) THEN <<>>
    ELSE IF /\ text[i] = "{"
            /\ i + 2 <= Len(text)
            /\ IsNameToken(text[i + 1])
            /\ text[i + 2] = "}"
         THEN (IF text[i + 1] \in DOMAIN args THEN PyStr(args[text[i + 1]]) ELSE <<>>)
              \o SubstituteDroppingMissing(text, args, i + 3)
         ELSE <<text[i]>> \o SubstituteDroppingMissing(text, args, i + 1)

SubstitutePathParamsDroppingMissing(text, args) == SubstituteDroppingMissing(text, args, 1)

\* Dispatcher._substitute_path_params
SubstitutePathParams(text, args) == SubstituteFrom(text, args, 1)

\* Dispatcher._USER_AUTH_PARAMS
USER_AUTH_PARAMS == {"usr", "cookie_access_token"}

\* _needs_user_auth looking for usr alone
NeedsUserAuthUsrOnly(op) ==
    \E i \in 1..Len(op.parameters) : op.parameters[i].name = "usr"

\* Dispatcher._needs_user_auth
NeedsUserAuth(op) ==
    \E i \in 1..Len(op.parameters) : op.parameters[i].name \in USER_AUTH_PARAMS

\* None where a dict of arguments is expected
NoneDict == [k \in {"<None>"} |-> NoneValue]

\* None where a dict of headers is expected
NoneHeaders == [h \in {"<None>"} |-> <<>>]

\* d or None
OrNone(d) == IF DOMAIN d = {} THEN NoneDict ELSE d

\* dispatch: extra_headers or None
ExtraHeaders(op, token) ==
    IF Truthy(token) /\ NeedsUserAuth(op)
    THEN [h \in {"Authorization"} |-> <<"Bearer", " ">> \o token]
    ELSE NoneHeaders

\* the keyword arguments dispatch hands to client._request
RequestOf(op, args, token) ==
    LET sp == SeparateParams(op, args) IN
    [sent |-> TRUE,
     method |-> op.method,
     path |-> SubstitutePathParams(PathText(op.path), args),
     params |-> OrNone(sp.query),
     json |-> OrNone(sp.body),
     headers |-> ExtraHeaders(op, token)]

\* what the transport returns: a JSON mapping, given by its fields with the
\* string or null each holds, or a JSON value of another kind
JsonDict(fields) == [kind |-> "dict", fields |-> fields]
JsonList == [kind |-> "list", fields |-> <<>>]

\* dict.get(key)
Get(fields, key) == IF key \in DOMAIN fields THEN fields[key] ELSE None

\* dict.__setitem__
SetItem(fields, key, value) ==
    [k \in DOMAIN fields \cup {key} |-> IF k = key THEN value ELSE fields[k]]

\* urllib.parse.quote(text, safe=""): letters, digits and "_.-~" stay, every
\* other character becomes its percent escape
QuoteToken(tok) ==
    CASE tok = "/" -> "%2F"
      [] tok = " " -> "%20"
      [] tok = ":" -> "%3A"
      [] tok = "{" -> "%7B"
      [] tok = "}" -> "%7D"
      [] tok = "!" -> "%21"
      [] OTHER -> tok

Quote(text) == [i \in 1..Len(text) |-> QuoteToken(text[i])]

\* str(client.config.lnbits_url).rstrip("/"), for the default LNbitsConfig
BaseUrl == <<"https", ":", "/", "/", "demo", ".", "lnbits", ".", "com">>

\* _enrich_invoice reading bolt11 before payment_request
EnrichInvoiceBolt11First(result, op, args) ==
    IF op.tool_name # <<"payments", "create", "payments">> THEN result
    ELSE IF "out" \in DOMAIN args /\ PyTruthy(args["out"]) THEN result
    ELSE IF result.kind # "dict" THEN result
    ELSE LET b == Get(result.fields, "bolt11")
             bolt11 == IF Truthy(b) THEN b ELSE Get(result.fields, "payment_request")
         IN  IF ~Truthy(bolt11) THEN result
             ELSE JsonDict(SetItem(
                      SetItem(result.fields, "qr_code",
                              BaseUrl \o <<"/", "api", "/", "v1", "/", "qrcode", "/">>
                                  \o Quote(bolt11)),
                      "lightning_uri", <<"lightning", ":">> \o bolt11))

\* no exception
NoError == "none"

\* a dispatch that catches the transport's error and returns it as its result
PropagateErrorAsResult(rt, error) ==
    [rt EXCEPT !.done = TRUE, !.raised = FALSE, !.transportError = error,
               !.result = JsonDict([k \in {"error"} |-> <<error>>])]

\* dispatch has no except clause around client._request: the error the
\* transport raises leaves dispatch as it is, and nothing after the await runs
PropagateError(rt, error) ==
    [rt EXCEPT !.done = TRUE, !.raised = TRUE, !.transportError = error, !.error = error]

\* Dispatcher._enrich_invoice
EnrichInvoice(result, op, args) ==
    IF op.tool_name # <<"payments", "create", "payments">> THEN result
    ELSE IF "out" \in DOMAIN args /\ PyTruthy(args["out"]) THEN result
    ELSE IF result.kind # "dict" THEN result
    ELSE LET pr == Get(result.fields, "payment_request")
             bolt11 == IF Truthy(pr) THEN pr ELSE Get(result.fields, "bolt11")
         IN  IF ~Truthy(bolt11) THEN result
             ELSE JsonDict(SetItem(
                      SetItem(result.fields, "qr_code",
                              BaseUrl \o <<"/", "api", "/", "v1", "/", "qrcode", "/">>
                                  \o Quote(bolt11)),
                      "lightning_uri", <<"lightning", ":">> \o bolt11))

\* ------------------------------------------------------------------ dispatcher: inputs

\* parameter descriptors: a name or none, a location or none
ParamDescriptors ==
    [name : {"a", "b", Absent}, in : {"path", "query", "cookie", Absent}]

ParamLists == SeqsUpTo(ParamDescriptors, MaxParams)

ArgKeys == {"a", "b", ""}
ArgValues == {"x", "y"}

\* the argument mappings
ArgumentMaps == UNION {[K -> ArgValues] : K \in SUBSET ArgKeys}

\* no call of _separate_params yet
NoResult == [query |-> <<>>, body |-> <<>>, done |-> FALSE]

\* dispatch has not returned
NoReturn ==
    [done |-> FALSE, raised |-> FALSE, transport |-> JsonList, result |-> JsonList,
     requests |-> 0, transportError |-> NoError, error |-> NoError]

\* no call of client._request yet
NoRequest ==
    [sent |-> FALSE, method |-> "GET", path |-> <<>>, params |-> NoneDict,
     json |-> NoneDict, headers |-> NoneHeaders]

\* ------------------------------------------------------------------ registry: inputs

PathWallet == << <<"api">>, <<"v1">>, <<"wallet">> >>
PathLinks == << <<"lnurlp">>, <<"api">>, <<"v1">>, <<"links">> >>
PathTpos == << <<"tpos">>, <<"api">>, <<"v1">>, <<"tposs">> >>
PathDocs == << <<"docsify">>, <<"api">>, <<"v1">> >>
PathPage == << <<"lnurlp">>, <<>> >>

\* the operations the load lists are drawn from: two that every default
\* registry keeps, one that reuses a name, and one per filter rule
RegistryOps ==
    { DiscoveredOperation(<<"wallet", "get", "wallet">>, "GET", PathWallet,
                          <<"Wallet">>, <<>>, None),
      DiscoveredOperation(<<"lnurlp", "list", "links">>, "GET", PathLinks,
                          <<"lnurlp">>, <<>>, <<"lnurlp">>),
      DiscoveredOperation(<<"wallet", "get", "wallet">>, "POST", PathTpos,
                          <<"tpos">>, <<>>, <<"tpos">>),
      DiscoveredOperation(<<"wallet", "delete", "wallet">>, "DELETE", PathWallet,
                          <<"Wallet">>, <<>>, None),
      DiscoveredOperation(<<"admin", "ui", "list", "wallet">>, "GET", PathWallet,
                          <<"Admin", " ", "UI">>, <<>>, None),
      DiscoveredOperation(<<"other", "list", "v1">>, "GET", PathDocs,
                          <<"other">>, <<>>, <<"docsify">>),
      DiscoveredOperation(<<"lnurlp", "list", "lnurlp">>, "GET", PathPage,
                          <<"lnurlp">>, <<>>, None) }

OpLists == SeqsUpTo(RegistryOps, MaxOps)

\* the registry configurations: the default one and one per knob
Configs ==
    {RegistryConfig}
    \cup {[RegistryConfig EXCEPT !.max_tools = k] : k \in 0..MaxCap}
    \cup {[RegistryConfig EXCEPT !.include_extensions = l] : l \in {<<>>, << <<"lnurlp">> >>}}
    \cup {[RegistryConfig EXCEPT !.exclude_extensions = << <<"lnurlp">> >>],
          [RegistryConfig EXCEPT !.exclude_methods = <<>>],
          [RegistryConfig EXCEPT !.exclude_methods = <<"delete", "post">>]}

\* ------------------------------------------------------------------ server

Tasks == 1..NumTasks

\* a task between two requests
IdleTask ==
    [pc |-> "idle", kind |-> "none", name |-> <<>>, known |-> {}, count |-> 0, pos |-> 0]

\* nothing returned yet
NoResponse ==
    [request |-> "none", name |-> <<>>, known |-> {}, route |-> "none",
     outcome |-> "none", body |-> <<>>, count |-> 0, http |-> 0]

\* f"Unknown tool: {name}"
UnknownText(name) == << <<"Unknown tool: ">>, name >>

\* f"LNbits API error: {e}"
ApiErrorText == << <<"LNbits API error: ">>, <<"e">> >>

\* f"Error: {e}"
ErrorText == << <<"Error: ">>, <<"e">> >>

\* json.dumps(...) of a handler's result
JsonText(what) == << <<"{json}">>, what >>

\* how a step below the tool-call boundary can end
Outcomes == {"ok", "LNbitsError", "Exception"}

\* call_tool with only the except LNbitsError clause
CallToolResultNoCatchAll(outcome, text) ==
    CASE outcome = "ok" -> [outcome |-> "text", body |-> text]
      [] outcome = "LNbitsError" -> [outcome |-> "text", body |-> ApiErrorText]
      [] OTHER -> [outcome |-> "raised", body |-> ErrorText]

\* call_tool's try / except LNbitsError / except Exception: what the handler
\* hands back when the code under it ended with outcome
CallToolResult(outcome, text) ==
    CASE outcome = "ok" -> [outcome |-> "text", body |-> text]
      [] outcome = "LNbitsError" -> [outcome |-> "text", body |-> ApiErrorText]
      [] OTHER -> [outcome |-> "text", body |-> ErrorText]

\* call_tool looking only at the registry
RouteRegistryOnly(name, d) ==
    IF name \in ToolNames(d) THEN "dispatch" ELSE "unknown"

\* call_tool's routing: the administrative names first, then registry.get
Route(name, d) ==
    IF name \in META_TOOL_NAMES THEN "meta"
    ELSE IF name \in ToolNames(d) THEN "dispatch"
    ELSE "unknown"

\* list_tools' result: meta_tools.get_tools() + registry.get_mcp_tools(), by name
ListedTools(d) == META_TOOL_DEFINITIONS \o [i \in 1..Len(d) |-> d[i].tool_name]

\* the resolver is not in use
ResolverIdle ==
    /\ resolveIn = [schema |-> NoSchema, schemas |-> EmptyDict]
    /\ pendingCalls = <<>>
    /\ resolvedSchema = NoSchema

\* no schema has been sanitized, no input schema built
SchemaIdle ==
    /\ schemaIn = NoSchema
    /\ sanitized = NotSanitized
    /\ schemaOp = NoSchemaOp
    /\ inputSchema = NoSchema

\* the server is not in use
ServerIdle ==
    /\ discovery_done = FALSE
    /\ tasks = [t \in Tasks |-> IdleTask]
    /\ response = NoResponse
    /\ lastAttempt = "none"

\* ------------------------------------------------------------------ registry: behaviour

\* the dispatcher is not in use
DispatchIdle ==
    /\ dispatchOp = DiscoveredOperation(<<>>, "GET", <<>>, <<>>, <<>>, None)
    /\ arguments = <<>>
    /\ separated = NoResult
    /\ access_token = None
    /\ sentRequest = NoRequest
    /\ returned = NoReturn
    /\ configured_token = None

\* the parser pipeline is not in use
ParserIdle ==
    /\ specDoc = <<>>
    /\ parsed = <<>>
    /\ phase = "idle"

\* ToolRegistry.__init__
RegistryInit ==
    /\ operations = <<>>
    /\ last_refresh = 0
    /\ loadInput = <<>>
    /\ loadCount = 0

\* ToolRegistry.load(ops)
Load(ops) ==
    /\ LET r == LoadResult(config, operations, ops) IN
          /\ operations' = r.operations
          /\ loadCount' = r.accepted
    /\ last_refresh' = Now(last_refresh)
    /\ loadInput' = ops
    /\ UNCHANGED config

InitRegistry ==
    /\ ServerIdle
    /\ ResolverIdle
    /\ SchemaIdle
    /\ config \in Configs
    /\ RegistryInit
    /\ ParserIdle
    /\ DispatchIdle

NextRegistry ==
    /\ last_refresh < MaxClock
    /\ \E ops \in OpLists : Load(ops)
    /\ UNCHANGED <<parserVars, dispatchVars, serverVars, schemaVars, resolverVars>>

\* a registry under any configuration, loaded again and again
SpecRegistry == InitRegistry /\ [][NextRegistry]_vars

\* ------------------------------------------------------------------ parser: behaviour

\* OpenAPIParser.parse_spec_dict(specDoc)
ParseSpecDict ==
    /\ phase = "spec"
    /\ parsed' = ParseSpec(specDoc)
    /\ phase' = "parsed"
    /\ UNCHANGED <<specDoc, registryVars, dispatchVars, serverVars, schemaVars, resolverVars>>

\* ToolRegistry().load(parsed)
LoadParsed ==
    /\ phase = "parsed"
    /\ Load(parsed)
    /\ phase' = "loaded"
    /\ UNCHANGED <<specDoc, parsed, dispatchVars, serverVars, schemaVars, resolverVars>>

InitParser ==
    /\ ServerIdle
    /\ ResolverIdle
    /\ SchemaIdle
    /\ config = RegistryConfig
    /\ RegistryInit
    /\ specDoc \in SpecDocs
    /\ parsed = <<>>
    /\ phase = "spec"
    /\ DispatchIdle

NextParser ==
    \/ ParseSpecDict
    \/ LoadParsed

\* any document parsed, and the result loaded into a default registry
SpecParser == InitParser /\ [][NextParser]_vars

\* the paths of every shape up to MaxSegments segments: api, a version, an
\* extension's name, an empty segment (a doubled or trailing slash)
ExtensionPaths == SeqsUpTo({<<"api">>, <<"v1">>, <<"lnurlp">>, <<>>}, MaxSegments)

\* a document with one path and one GET operation
InitExtension ==
    /\ ServerIdle
    /\ ResolverIdle
    /\ SchemaIdle
    /\ config = RegistryConfig
    /\ RegistryInit
    /\ \E p \in ExtensionPaths :
          specDoc = << [path |-> p,
                        item |-> << [key |-> "get", tags |-> <<>>, parameters |-> <<>>] >>] >>
    /\ parsed = <<>>
    /\ phase = "spec"
    /\ DispatchIdle

NextExtension == ParseSpecDict

\* the parser on one path of any shape
SpecExtension == InitExtension /\ [][NextExtension]_vars

\* schemas.get("A") and schemas.get("B"), and a name the set does not hold
RefA == JRef(<<"#", "components", "schemas", "A">>)
RefB == JRef(<<"#", "components", "schemas", "B">>)
RefMissing == JRef(<<"#", "components", "schemas", "C">>)

\* the schemas of a schema set: plain, a reference to A, to B or to a missing
\* name, and schemas holding references under properties, items and anyOf
RefFragments ==
    { [k \in {"type"} |-> JString("integer")],
      [k \in {"$ref"} |-> RefA],
      [k \in {"$ref"} |-> RefB],
      [k \in {"$ref"} |-> RefMissing],
      [k \in {"properties"} |-> JObject([n \in {"p"} |-> JObject([r \in {"$ref"} |-> RefA])])],
      [k \in {"properties"} |->
          JObject([n \in {"p", "q"} |->
                      JObject([r \in {"$ref"} |-> IF n = "p" THEN RefA ELSE RefB])])],
      [k \in {"type", "items"} |->
          IF k = "type" THEN JString("array") ELSE JObject([r \in {"$ref"} |-> RefB])],
      [k \in {"anyOf"} |->
          JArray(<<JObject([r \in {"$ref"} |-> RefA]), JObject([r \in {"$ref"} |-> RefB])>>)] }

\* _resolve_schema(schema, schemas): the call is made
ResolveCall ==
    /\ pendingCalls = <<>>
    /\ resolvedSchema = NoSchema
    /\ pendingCalls' = << <<resolveIn.schema, 0>> >>
    /\ resolvedSchema' = [k \in {"<running>"} |-> JNull]
    /\ UNCHANGED resolveIn
    /\ UNCHANGED <<registryVars, parserVars, dispatchVars, serverVars, schemaVars>>

\* the innermost pending call runs up to the calls it makes itself
ResolveStep ==
    /\ Len(pendingCalls) > 1 \/ (Len(pendingCalls) = 1 /\
           NestedCalls(pendingCalls[1][1], resolveIn.schemas, pendingCalls[1][2]) # <<>>)
    /\ pendingCalls' =
           NestedCalls(pendingCalls[1][1], resolveIn.schemas, pendingCalls[1][2])
               \o Tail(pendingCalls)
    /\ UNCHANGED <<resolveIn, resolvedSchema>>
    /\ UNCHANGED <<registryVars, parserVars, dispatchVars, serverVars, schemaVars>>

\* the last pending call returns, and with it the outermost one
ResolveReturns ==
    /\ Len(pendingCalls) = 1
    /\ NestedCalls(pendingCalls[1][1], resolveIn.schemas, pendingCalls[1][2]) = <<>>
    /\ pendingCalls' = <<>>
    /\ resolvedSchema' = ResolveSchema(resolveIn.schema, resolveIn.schemas, 0)
    /\ UNCHANGED resolveIn
    /\ UNCHANGED <<registryVars, parserVars, dispatchVars, serverVars, schemaVars>>

InitResolve ==
    /\ \E a, b, root \in RefFragments :
          resolveIn = [schema |-> root, schemas |-> [n \in {"A", "B"} |-> IF n = "A" THEN a ELSE b]]
    /\ pendingCalls = <<>>
    /\ resolvedSchema = NoSchema
    /\ ServerIdle
    /\ SchemaIdle
    /\ RegistryInit
    /\ config = RegistryConfig
    /\ ParserIdle
    /\ DispatchIdle

NextResolve == ResolveCall \/ ResolveStep \/ ResolveReturns

\* the interpreter runs a call that is under way
SpecResolve == InitResolve /\ [][NextResolve]_vars /\ WF_vars(NextResolve)

\* the paths a tool name is built from: up to MaxSegments pieces between
\* slashes, each a plain name, wallet, a name of two words, a path parameter
\* or empty
NamePaths ==
    SeqsUpTo({<<"api">>, <<"wallet">>, <<"links", "-", "2">>, <<"{", "id", "}">>, <<>>},
             MaxSegments)

\* a document with one path and one operation under one of the five methods
InitToolName ==
    /\ ServerIdle
    /\ ResolverIdle
    /\ SchemaIdle
    /\ config = RegistryConfig
    /\ RegistryInit
    /\ \E p \in NamePaths, m \in DOMAIN METHOD_ACTIONS, t \in DocTags :
          specDoc = << [path |-> p,
                        item |-> << [key |-> m, tags |-> t, parameters |-> <<>>] >>] >>
    /\ parsed = <<>>
    /\ phase = "spec"
    /\ DispatchIdle

NextToolName == ParseSpecDict

SpecToolName == InitToolName /\ [][NextToolName]_vars

\* ------------------------------------------------------------------ dispatcher: behaviour

\* Dispatcher._separate_params(dispatchOp, arguments)
SeparateParamsCall ==
    /\ ~separated.done
    /\ LET r == SeparateParams(dispatchOp, arguments) IN
          separated' = [query |-> r.query, body |-> r.body, done |-> TRUE]
    /\ UNCHANGED <<dispatchOp, arguments, access_token, sentRequest, returned, configured_token>>

InitDispatch ==
    /\ ServerIdle
    /\ ResolverIdle
    /\ SchemaIdle
    /\ config = RegistryConfig
    /\ RegistryInit
    /\ ParserIdle
    /\ \E ps \in ParamLists :
          dispatchOp = DiscoveredOperation(<<"test", "tool">>, "GET",
                           << <<"api">>, <<"v1">>, <<"test">> >>, <<"test">>, ps, None)
    /\ arguments \in ArgumentMaps
    /\ separated = NoResult
    /\ access_token = None
    /\ sentRequest = NoRequest
    /\ returned = NoReturn
    /\ configured_token = None

NextDispatch ==
    /\ SeparateParamsCall
    /\ UNCHANGED <<registryVars, parserVars, serverVars, schemaVars, resolverVars>>

\* the dispatcher's argument partition on any operation and arguments
SpecDispatch == InitDispatch /\ [][NextDispatch]_vars

\* ------------------------------------------------------------------ dispatch: inputs

\* the descriptors of operations that may ask for user-level auth
AuthParamDescriptors ==
    [name : {"usr", "cookie_access_token", "a", Absent}, in : {"query", "cookie"}]

AuthParamLists == SeqsUpTo(AuthParamDescriptors, MaxParams)

\* access_token: None, the empty string, a token
AccessTokens == {None, <<>>, <<"tok">>}

\* path templates: without a placeholder, with one, with two in two segments,
\* with two in one segment
TplPayments == << <<"api">>, <<"v1">>, <<"payments">> >>
TplPayment == << <<"api">>, <<"v1">>, <<"payments">>, <<"{", "hash", "}">> >>
TplRepo == << <<"api">>, <<"v1">>, <<"{", "org", "}">>, <<"{", "repo", "}">> >>
TplTag == << <<"api">>, <<"v1">>, <<"{", "org", "}", "-", "{", "repo", "}">> >>

PathTemplates == {TplPayments, TplPayment, TplRepo, TplTag}

\* the values of path arguments: plain strings, strings with a "/", the empty
\* string, an int
PathValues ==
    {StrValue(<<"a">>), StrValue(<<"a", "/", "b">>), StrValue(<<"b", "/", "a">>),
     StrValue(<<>>), IntValue("5")}

PathArguments == UNION {[K -> PathValues] : K \in SUBSET {"org", "repo", "hash"}}

\* the values of the argument out: falsy and truthy ones of four types
OutValues ==
    {BoolValue(FALSE), BoolValue(TRUE), IntValue("0"), StrValue(<<>>),
     StrValue(<<"false">>), NoneValue}

OutArguments == {<<>>} \cup {[k \in {"out"} |-> v] : v \in OutValues}

\* the fields of a JSON mapping the transport returns
ResultFields ==
    UNION {{f \in [K -> {None, <<>>, <<"lnbc1">>, <<"lnbc2">>, <<"old">>}] :
                /\ "payment_request" \in K => f["payment_request"] \in {None, <<>>, <<"lnbc1">>}
                /\ "bolt11" \in K => f["bolt11"] \in {None, <<>>, <<"lnbc2">>}
                /\ "qr_code" \in K => f["qr_code"] = <<"old">>} :
           K \in SUBSET {"payment_request", "bolt11", "qr_code"}}

TransportResults == {JsonList} \cup {JsonDict(f) : f \in ResultFields}

\* ------------------------------------------------------------------ dispatch: behaviour

\* Dispatcher.dispatch up to its await of client._request
DispatchRequest ==
    /\ ~sentRequest.sent
    /\ sentRequest' = RequestOf(dispatchOp, arguments, access_token)
    /\ LET r == SeparateParams(dispatchOp, arguments) IN
          separated' = [query |-> r.query, body |-> r.body, done |-> TRUE]
    /\ returned' = [returned EXCEPT !.requests = @ + 1]
    /\ UNCHANGED <<dispatchOp, arguments, access_token, configured_token>>
    /\ UNCHANGED <<registryVars, parserVars, serverVars, schemaVars, resolverVars>>

\* client._request returns result: _enrich_invoice, then json.dumps
TransportReturns(result) ==
    /\ sentRequest.sent
    /\ ~returned.done
    /\ returned' = [returned EXCEPT !.done = TRUE, !.transport = result,
                                    !.result = EnrichInvoice(result, dispatchOp, arguments)]
    /\ UNCHANGED <<dispatchOp, arguments, separated, access_token, sentRequest, configured_token>>
    /\ UNCHANGED <<registryVars, parserVars, serverVars, schemaVars, resolverVars>>

\* what client._request raises: LNbitsError for a status of 400 or more, and
\* for a request that failed
TransportErrors == {"LNbitsError: API request failed: 404", "LNbitsError: Request failed"}

\* client._request raises error
TransportRaises(error) ==
    /\ sentRequest.sent
    /\ ~returned.done
    /\ returned' = PropagateError(returned, error)
    /\ UNCHANGED <<dispatchOp, arguments, separated, access_token, sentRequest, configured_token>>
    /\ UNCHANGED <<registryVars, parserVars, serverVars, schemaVars, resolverVars>>

\* dispatch is called on an operation that may ask for user-level auth, with
\* or without a token; or on an invoice or another operation, with or without
\* out; or on a path template, with any path arguments
InitRequest ==
    /\ ServerIdle
    /\ ResolverIdle
    /\ SchemaIdle
    /\ config = RegistryConfig
    /\ RegistryInit
    /\ ParserIdle
    /\ separated = NoResult
    /\ sentRequest = NoRequest
    /\ returned = NoReturn
    /\ configured_token = None
    /\ \/ /\ \E ps \in AuthParamLists :
                dispatchOp = DiscoveredOperation(<<"wallet", "get", "wallet">>, "GET",
                                 TplPayments, <<"Wallet">>, ps, None)
          /\ arguments = <<>>
          /\ access_token \in AccessTokens
       \/ /\ \E name \in {<<"payments", "create", "payments">>,
                            <<"payments", "create", "payments", "2">>} :
                dispatchOp = DiscoveredOperation(name, "POST", TplPayments,
                                 <<"Payments">>, <<>>, None)
          /\ arguments \in OutArguments
          /\ access_token = None
       \/ /\ \E tpl \in PathTemplates :
                dispatchOp = DiscoveredOperation(<<"other", "get", "resource">>, "GET", tpl,
                                 <<"other">>,
                                 <<[name |-> "org", in |-> "path"],
                                   [name |-> "repo", in |-> "path"]>>, None)
          /\ arguments \in PathArguments
          /\ access_token = None

NextRequest ==
    \/ DispatchRequest
    \/ \E result \in TransportResults : TransportReturns(result)
    \/ \E error \in TransportErrors : TransportRaises(error)

\* one call of Dispatcher.dispatch
SpecRequest == InitRequest /\ [][NextRequest]_vars

\* ------------------------------------------------------------------ schemas: inputs

\* the dict with the given (key, value) pairs
DictOf(pairs) == [k \in {p[1] : p \in pairs} |-> (CHOOSE p \in pairs : p[1] = k)[2]]

\* what a schema without nested schemas may carry: a type, the nullable flag, an
\* enum, a description, an example, a whole and a fractional float bound
LeafMenu ==
    { <<"type", JString("integer")>>, <<"nullable", JBool(TRUE)>>,
      <<"enum", JArray(<<JString("a")>>)>>, <<"description", JString("d")>>,
      <<"example", JInt(1)>>, <<"minimum", JFloat(10)>>, <<"maximum", JFloat(15)>> }

Leaves == { DictOf(ps) : ps \in SUBSET LeafMenu }

\* what the schema around a nested one may carry besides it
OuterMenu == { {}, {<<"type", JString("array")>>, <<"nullable", JBool(TRUE)>>} }

\* the places of a schema that can hold the nested schema s
Holders(s) ==
    { <<"items", JObject(s)>>, <<"items", JArray(<<JObject(s)>>)>>,
      <<"properties", JObject([k \in {"p"} |-> JObject(s)])>>,
      <<"properties", JObject([k \in {"p"} |-> JString("string")])>>,
      <<"anyOf", JArray(<<JObject(s), JString("string")>>)>>,
      <<"additionalProperties", JObject(s)>>,
      <<"prefixItems", JArray(<<JObject(s)>>)>> }

\* the schemas nesting at most d deep
RECURSIVE SchemasOfDepth(_)
SchemasOfDepth(d) ==
    IF d = 0 THEN Leaves
    ELSE Leaves \cup { DictOf(outer \cup {holder}) :
                           outer \in OuterMenu,
                           holder \in UNION { Holders(s) : s \in SchemasOfDepth(d - 1) } }

Schemas == SchemasOfDepth(MaxDepth)

\* schemas with a title
TitledSchemas ==
    { DictOf({<<"title", JString("t")>>} \cup ps) :
          ps \in SUBSET { <<"description", JString("d")>>, <<"minimum", JFloat(10)>>,
                           <<"example", JInt(1)>> } }

\* parameter descriptors without a schema: hidden and shown names, a missing name,
\* the cookie location and another
PlainParams ==
    { DictOf(name \cup {<<"in", JString(loc)>>, <<"required", JBool(req)>>}) :
          name \in { {}, {<<"name", JString("usr")>>}, {<<"name", JString("cookie_access_token")>>},
                      {<<"name", JString("a")>>} },
          loc \in {"query", "cookie"}, req \in BOOLEAN }

\* request bodies: none, an empty one, one with a required property named usr
PlainBodies ==
    { JNull, JObject(EmptyDict),
      JObject(DictOf({ <<"type", JString("object")>>,
                       <<"properties", JObject([k \in {"usr"} |-> JObject(EmptyDict)])>>,
                       <<"required", JArray(<<JString("usr")>>)>> })) }

\* the operations handed to _build_input_schema: lists of plain parameters with a
\* plain body; one parameter with a schema; a body with one property with a schema
SchemaOps ==
    { SchemaOperation(ps, b) : ps \in SeqsUpTo(PlainParams, MaxParams), b \in PlainBodies }
    \cup
    { SchemaOperation(<<DictOf({<<"name", JString("a")>>, <<"in", JString("query")>>,
                                <<"schema", JObject(sch)>>})>>, JNull) :
          sch \in Schemas \cup TitledSchemas }
    \cup
    { SchemaOperation(<<>>, JObject(DictOf({ <<"type", JString("object")>>,
                                             <<"properties", JObject([k \in {"b"} |-> JObject(sch)])>> }))) :
          sch \in Schemas \cup TitledSchemas }

\* ------------------------------------------------------------------ schemas: behaviour

\* ToolRegistry._sanitize_schema(schema)
SanitizeSchemaCall ==
    /\ sanitized.calls = 0
    /\ sanitized' = [sanitized EXCEPT !.calls = 1, !.once = SanitizeSchema(schemaIn)]
    /\ UNCHANGED <<schemaIn, schemaOp, inputSchema>>
    /\ UNCHANGED <<registryVars, parserVars, dispatchVars, serverVars, resolverVars>>

\* ToolRegistry._sanitize_schema on what it returned
SanitizeAgain ==
    /\ sanitized.calls = 1
    /\ sanitized' = [sanitized EXCEPT !.calls = 2, !.twice = SanitizeSchema(sanitized.once)]
    /\ UNCHANGED <<schemaIn, schemaOp, inputSchema>>
    /\ UNCHANGED <<registryVars, parserVars, dispatchVars, serverVars, resolverVars>>

InitSanitize ==
    /\ schemaIn \in Schemas
    /\ sanitized = NotSanitized
    /\ schemaOp = NoSchemaOp
    /\ inputSchema = NoSchema
    /\ ServerIdle
    /\ ResolverIdle
    /\ RegistryInit
    /\ config = RegistryConfig
    /\ ParserIdle
    /\ DispatchIdle

NextSanitize == SanitizeSchemaCall \/ SanitizeAgain

SpecSanitize == InitSanitize /\ [][NextSanitize]_vars

\* ToolRegistry._build_input_schema(op)
BuildInputSchemaCall ==
    /\ inputSchema = NoSchema
    /\ inputSchema' = BuildInputSchema(schemaOp)
    /\ UNCHANGED <<schemaIn, sanitized, schemaOp>>
    /\ UNCHANGED <<registryVars, parserVars, dispatchVars, serverVars, resolverVars>>

InitInputSchema ==
    /\ schemaOp \in SchemaOps
    /\ inputSchema = NoSchema
    /\ schemaIn = NoSchema
    /\ sanitized = NotSanitized
    /\ ServerIdle
    /\ ResolverIdle
    /\ RegistryInit
    /\ config = RegistryConfig
    /\ ParserIdle
    /\ DispatchIdle

NextInputSchema == BuildInputSchemaCall

SpecInputSchema == InitInputSchema /\ [][NextInputSchema]_vars

\* ------------------------------------------------------------------ server: inputs

\* an operation object of a fetched document
OperationObject(key, tag) == [key |-> key, tags |-> <<tag>>, parameters |-> <<>>]

\* the documents the LNbits instance may serve at /openapi.json: an empty one,
\* one with a DELETE operation, one with an extension's operation next to a
\* path-item key that is no HTTP method
ServerDocs ==
    { <<>>,
      << [path |-> PathWallet,
          item |-> <<OperationObject("get", <<"Wallet">>),
                     OperationObject("delete", <<"Wallet">>)>>] >>,
      << [path |-> PathWallet, item |-> <<OperationObject("get", <<"Wallet">>)>>],
         [path |-> PathLinks,
          item |-> <<OperationObject("parameters", <<>>),
                     OperationObject("get", <<"lnurlp">>)>>] >> }

\* the names call_tool is invoked with: the administrative ones, two that a
\* discovery can produce, one that none produces
CallNames ==
    META_TOOL_NAMES
    \cup {<<"wallet", "get", "wallet">>, <<"lnurlp", "list", "links">>, <<"no", "such", "tool">>}

\* ------------------------------------------------------------------ server: behaviour

\* a handler returns to the host
Return(t, request, name, known, route, result, count, http) ==
    /\ response' =
          [request |-> request, name |-> name, known |-> known,
           route |-> route, outcome |-> result.outcome, body |-> result.body,
           count |-> count, http |-> http]
    /\ tasks' = [tasks EXCEPT ![t] = IdleTask]

\* a handler suspends at an await
Await(t, pc, kind, name, known, count) ==
    /\ tasks' = [tasks EXCEPT ![t] =
                    [pc |-> pc, kind |-> kind, name |-> name, known |-> known,
                     count |-> count, pos |-> 0]]
    /\ UNCHANGED response

\* the caller of _discover_tools goes on with the count it got: list_tools
\* builds its list, _refresh_tools and _configure their JSON text
AfterDiscovery(t, count, d) ==
    CASE tasks[t].kind = "list" ->
            Return(t, "list_tools", <<>>, {}, "none",
                   [outcome |-> "tools", body |-> ListedTools(d)], count, 1)
      [] tasks[t].kind = "refresh" ->
            Return(t, "call_tool", tasks[t].name, tasks[t].known, "meta",
                   CallToolResult("ok", JsonText(<<"tool_count">>)), count, 1)
      [] OTHER ->
            Return(t, "call_tool", tasks[t].name, tasks[t].known, "meta",
                   CallToolResult("ok", JsonText(<<"config">>)), count, 1)

\* a list_tools that discovers on every call
NeedsDiscoveryAlways(done) == TRUE

\* list_tools: if not self._discovery_done
NeedsDiscovery(done) == ~done

\* list_tools, up to its first await or its return
ListTools(t) ==
    /\ tasks[t].pc = "idle"
    /\ IF NeedsDiscovery(discovery_done)
       THEN /\ Await(t, "fetching", "list", <<>>, {}, 0)
            /\ lastAttempt' = "started"
       ELSE /\ Return(t, "list_tools", <<>>, {}, "none",
                      [outcome |-> "tools", body |-> ListedTools(operations)], 0, 0)
            /\ UNCHANGED lastAttempt
    /\ UNCHANGED <<discovery_done, registryVars, parserVars, dispatchVars, schemaVars, resolverVars>>

\* _discover_tools resumes with the fetched document: parse, load, set the flag,
\* then await the tool-list-changed notification
FetchSucceeds(t, doc) ==
    /\ tasks[t].pc = "fetching"
    /\ Load(ParseSpec(doc))
    /\ discovery_done' = TRUE
    /\ lastAttempt' = "ok"
    /\ Await(t, "notifying", tasks[t].kind, tasks[t].name, tasks[t].known,
             LoadResult(config, operations, ParseSpec(doc)).accepted)
    /\ UNCHANGED <<parserVars, dispatchVars, schemaVars, resolverVars>>

\* _discover_tools resumes with an exception from the fetch: it returns 0
FetchFails(t) ==
    /\ tasks[t].pc = "fetching"
    /\ lastAttempt' = "failed"
    /\ AfterDiscovery(t, 0, operations)
    /\ UNCHANGED <<discovery_done, registryVars, parserVars, dispatchVars, schemaVars, resolverVars>>

\* send_tool_list_changed is over (sent, or failed and passed over)
NotifyDone(t) ==
    /\ tasks[t].pc = "notifying"
    /\ AfterDiscovery(t, tasks[t].count, operations)
    /\ UNCHANGED <<discovery_done, lastAttempt, registryVars, parserVars, dispatchVars, schemaVars, resolverVars>>

\* call_tool("refresh_tools"): MetaTools._refresh_tools awaits _discover_tools
CallRefreshTools(t) ==
    /\ tasks[t].pc = "idle"
    /\ Route(<<"refresh", "tools">>, operations) = "meta"
    /\ Await(t, "fetching", "refresh", <<"refresh", "tools">>, {}, 0)
    /\ lastAttempt' = "started"
    /\ UNCHANGED <<discovery_done, registryVars, parserVars, dispatchVars, schemaVars, resolverVars>>

\* call_tool("configure_lnbits"): MetaTools._configure awaits
\* RuntimeConfigManager.update_configuration, whose body lies outside the
\* sources; it is taken to do either of what its callers allow: call the
\* registered on_config_changed (which is _discover_tools), or end without it
\* (with a value or an exception, as MetaDone draws)
CallConfigure(t, notifies) ==
    /\ tasks[t].pc = "idle"
    /\ Route(<<"configure", "lnbits">>, operations) = "meta"
    /\ IF notifies
       THEN /\ Await(t, "fetching", "configure", <<"configure", "lnbits">>, {}, 0)
            /\ lastAttempt' = "started"
       ELSE /\ Await(t, "meta", "call", <<"configure", "lnbits">>, {}, 0)
            /\ UNCHANGED lastAttempt
    /\ UNCHANGED <<discovery_done, registryVars, parserVars, dispatchVars, schemaVars, resolverVars>>

\* call_tool of an administrative tool whose handler has no await:
\* get_configuration, list_extensions
CallMetaSync(t, name, outcome) ==
    /\ tasks[t].pc = "idle"
    /\ name \in {<<"get", "configuration">>, <<"list", "extensions">>}
    /\ Route(name, operations) = "meta"
    /\ Return(t, "call_tool", name, {}, "meta",
              CallToolResult(outcome, JsonText(name)), 0, 0)
    /\ UNCHANGED <<discovery_done, lastAttempt, registryVars, parserVars, dispatchVars, schemaVars, resolverVars>>

\* call_tool of an administrative tool whose handler awaits the client:
\* test_connection, pay_lightning_address
CallMetaAsync(t, name) ==
    /\ tasks[t].pc = "idle"
    /\ name \in {<<"test", "connection">>, <<"pay", "lightning", "address">>}
    /\ Route(name, operations) = "meta"
    /\ Await(t, "meta", "call", name, {}, 0)
    /\ UNCHANGED <<discovery_done, lastAttempt, registryVars, parserVars, dispatchVars, schemaVars, resolverVars>>

\* the awaited administrative handler ends
MetaDone(t, outcome) ==
    /\ tasks[t].pc = "meta"
    /\ Return(t, "call_tool", tasks[t].name, tasks[t].known, "meta",
              CallToolResult(outcome, JsonText(tasks[t].name)), 0, 1)
    /\ UNCHANGED <<discovery_done, lastAttempt, registryVars, parserVars, dispatchVars, schemaVars, resolverVars>>

\* call_tool of a name that is not administrative: registry.get, then the
\* unknown-tool text or the await of get_client
CallDiscovered(t, name) ==
    /\ tasks[t].pc = "idle"
    /\ Route(name, operations) # "meta"
    /\ IF Route(name, operations) = "unknown"
       THEN Return(t, "call_tool", name, ToolNames(operations), "unknown",
                   [outcome |-> "text", body |-> UnknownText(name)], 0, 0)
       ELSE Await(t, "client", "call", name, ToolNames(operations), 0)
    /\ UNCHANGED <<discovery_done, lastAttempt, registryVars, parserVars, dispatchVars, schemaVars, resolverVars>>

\* get_client returned: Dispatcher.dispatch runs up to its await of
\* client._request
ClientReady(t) ==
    /\ tasks[t].pc = "client"
    /\ Await(t, "requesting", "call", tasks[t].name, tasks[t].known, 0)
    /\ UNCHANGED <<discovery_done, lastAttempt, registryVars, parserVars, dispatchVars, schemaVars, resolverVars>>

\* get_client raised
ClientFails(t) ==
    /\ tasks[t].pc = "client"
    /\ Return(t, "call_tool", tasks[t].name, tasks[t].known, "dispatch",
              CallToolResult("Exception", <<>>), 0, 0)
    /\ UNCHANGED <<discovery_done, lastAttempt, registryVars, parserVars, dispatchVars, schemaVars, resolverVars>>

\* client._request returned or raised, and with it Dispatcher.dispatch
RequestDone(t, outcome) ==
    /\ tasks[t].pc = "requesting"
    /\ Return(t, "call_tool", tasks[t].name, tasks[t].known, "dispatch",
              CallToolResult(outcome, JsonText(<<"result">>)), 0, 1)
    /\ UNCHANGED <<discovery_done, lastAttempt, registryVars, parserVars, dispatchVars, schemaVars, resolverVars>>

\* LNbitsMCPServer.__init__
InitServer ==
    /\ config = RegistryConfig
    /\ RegistryInit
    /\ ParserIdle
    /\ DispatchIdle
    /\ ServerIdle
    /\ ResolverIdle
    /\ SchemaIdle

NextServer ==
    \/ \E t \in Tasks : ListTools(t)
    \/ \E t \in Tasks, doc \in ServerDocs : FetchSucceeds(t, doc)
    \/ \E t \in Tasks : FetchFails(t)
    \/ \E t \in Tasks : NotifyDone(t)
    \/ \E t \in Tasks : CallRefreshTools(t)
    \/ \E t \in Tasks, notifies \in BOOLEAN : CallConfigure(t, notifies)
    \/ \E t \in Tasks, name \in CallNames, outcome \in Outcomes :
          CallMetaSync(t, name, outcome)
    \/ \E t \in Tasks, name \in CallNames : CallMetaAsync(t, name)
    \/ \E t \in Tasks, outcome \in Outcomes : MetaDone(t, outcome)
    \/ \E t \in Tasks, name \in CallNames : CallDiscovered(t, name)
    \/ \E t \in Tasks : ClientReady(t)
    \/ \E t \in Tasks : ClientFails(t)
    \/ \E t \in Tasks, outcome \in Outcomes : RequestDone(t, outcome)

\* the server's handlers, run by the host's tasks, interleaved at their awaits
SpecServer == InitServer /\ [][NextServer]_vars

\* ------------------------------------------------------------------ server: dispatch of a discovered tool

\* ToolRegistry.get(name), for a name the registry holds
RegistryGet(d, name) == d[CHOOSE i \in 1..Len(d) : d[i].tool_name = name]

\* the access_token call_tool hands to dispatch: the call is
\* dispatch(client, op, arguments), so the keyword keeps its default
CallToolAccessToken == None

\* get_client returned, with the request that follows: call_tool calls
\* self.dispatcher.dispatch(client, op, arguments), which runs up to its await
\* of client._request
ClientReadyDispatches(t) ==
    /\ tasks[t].pc = "client"
    /\ Await(t, "requesting", "call", tasks[t].name, tasks[t].known, 0)
    /\ LET op == RegistryGet(operations, tasks[t].name)
           r == SeparateParams(op, arguments)
       IN  /\ dispatchOp' = op
           /\ access_token' = CallToolAccessToken
           /\ separated' = [query |-> r.query, body |-> r.body, done |-> TRUE]
           /\ sentRequest' = RequestOf(op, arguments, CallToolAccessToken)
    /\ UNCHANGED <<arguments, returned, configured_token>>
    /\ UNCHANGED <<discovery_done, lastAttempt, registryVars, parserVars, schemaVars, resolverVars>>

\* a server after a discovery that left one operation in the registry, with or
\* without a user-level token in its configuration
InitCallTool ==
    /\ ParserIdle
    /\ ResolverIdle
    /\ SchemaIdle
    /\ config = RegistryConfig
    /\ \E ps \in AuthParamLists :
          /\ operations = << DiscoveredOperation(<<"wallet", "get", "wallet">>, "GET",
                                 TplPayments, <<"Wallet">>, ps, None) >>
          /\ loadInput = operations
    /\ last_refresh = 1
    /\ loadCount = 1
    /\ discovery_done = TRUE
    /\ lastAttempt = "ok"
    /\ tasks = [t \in Tasks |-> IdleTask]
    /\ response = NoResponse
    /\ dispatchOp = DiscoveredOperation(<<>>, "GET", <<>>, <<>>, <<>>, None)
    /\ arguments = <<>>
    /\ separated = NoResult
    /\ access_token = None
    /\ sentRequest = NoRequest
    /\ returned = NoReturn
    /\ configured_token \in AccessTokens

NextCallTool ==
    \/ \E t \in Tasks, name \in CallNames : CallDiscovered(t, name)
    \/ \E t \in Tasks : ClientReadyDispatches(t)
    \/ \E t \in Tasks : ClientFails(t)
    \/ \E t \in Tasks, outcome \in Outcomes : RequestDone(t, outcome)

\* call_tool on the tools of a loaded registry, down to the request
SpecCallTool == InitCallTool /\ [][NextCallTool]_vars

\* ------------------------------------------------------------------ server: interleaving

Handlers == 1..NumHandlers

\* a handler is inside the synchronous body of ToolRegistry.load
Loading(t) == tasks[t].pc = "loading"

\* a host that may switch to another handler at any statement
MayRunPreemptive(t) == TRUE

\* the host's cooperative scheduling: a handler runs until its next await, and
\* ToolRegistry.load is a plain def with no await, so while one handler is
\* inside load no other handler runs
MayRun(t) == \A u \in Handlers : Loading(u) => u = t

\* _discover_tools resumes with the fetched document, parses it and enters
\* load: self._operations.clear(), accepted = 0
LoadClears(t, doc) ==
    /\ tasks[t].pc = "fetching"
    /\ operations' = <<>>
    /\ loadInput' = ParseSpec(doc)
    /\ tasks' = [tasks EXCEPT ![t] = [@ EXCEPT !.pc = "loading", !.count = 0, !.pos = 0]]
    /\ UNCHANGED <<config, last_refresh, loadCount, discovery_done, response, lastAttempt>>
    /\ UNCHANGED <<parserVars, dispatchVars, schemaVars, resolverVars>>

\* one iteration of the for loop of load: skip, or insert and count, and
\* break at max_tools
LoadInserts(t) ==
    /\ Loading(t)
    /\ tasks[t].pos < Len(loadInput)
    /\ LET i == tasks[t].pos + 1
           op == loadInput[i]
           accepted == tasks[t].count
       IN  IF ShouldSkip(config, op)
           THEN /\ tasks' = [tasks EXCEPT ![t] = [@ EXCEPT !.pos = i]]
                /\ UNCHANGED operations
           ELSE /\ operations' = DictSet(operations, op)
                /\ tasks' = [tasks EXCEPT ![t] =
                                [@ EXCEPT !.count = accepted + 1,
                                          !.pos = IF accepted + 1 >= config.max_tools
                                                  THEN Len(loadInput) ELSE i]]
    /\ UNCHANGED <<config, last_refresh, loadInput, loadCount, discovery_done, response,
                   lastAttempt>>
    /\ UNCHANGED <<parserVars, dispatchVars, schemaVars, resolverVars>>

\* the loop of load is over: last_refresh, return accepted; _discover_tools
\* sets the flag and awaits the tool-list-changed notification
LoadEnds(t) ==
    /\ Loading(t)
    /\ tasks[t].pos = Len(loadInput)
    /\ last_refresh' = Now(last_refresh)
    /\ loadCount' = tasks[t].count
    /\ discovery_done' = TRUE
    /\ lastAttempt' = "ok"
    /\ Await(t, "notifying", tasks[t].kind, tasks[t].name, tasks[t].known, tasks[t].count)
    /\ UNCHANGED <<config, operations, loadInput>>
    /\ UNCHANGED <<parserVars, dispatchVars, schemaVars, resolverVars>>

\* the names the concurrent calls use: one a discovery produces, one none does
ConcurrentNames == {<<"wallet", "get", "wallet">>, <<"no", "such", "tool">>}

\* LNbitsMCPServer.__init__, with the host's handlers
InitConcurrent ==
    /\ config = RegistryConfig
    /\ RegistryInit
    /\ ParserIdle
    /\ DispatchIdle
    /\ ResolverIdle
    /\ SchemaIdle
    /\ discovery_done = FALSE
    /\ tasks = [t \in Handlers |-> IdleTask]
    /\ response = NoResponse
    /\ lastAttempt = "none"

NextConcurrent ==
    \/ \E t \in Handlers : MayRun(t) /\ ListTools(t)
    \/ \E t \in Handlers, doc \in ServerDocs : MayRun(t) /\ LoadClears(t, doc)
    \/ \E t \in Handlers : MayRun(t) /\ LoadInserts(t)
    \/ \E t \in Handlers : MayRun(t) /\ LoadEnds(t)
    \/ \E t \in Handlers : MayRun(t) /\ FetchFails(t)
    \/ \E t \in Handlers : MayRun(t) /\ NotifyDone(t)
    \/ \E t \in Handlers : MayRun(t) /\ CallRefreshTools(t)
    \/ \E t \in Handlers, name \in ConcurrentNames : MayRun(t) /\ CallDiscovered(t, name)
    \/ \E t \in Handlers : MayRun(t) /\ ClientReady(t)
    \/ \E t \in Handlers : MayRun(t) /\ RequestDone(t, "ok")

\* the server's handlers interleaved at their awaits, load run statement by
\* statement; the requests of call_tool succeed, how they end does not touch
\* the registry
SpecConcurrent == InitConcurrent /\ [][NextConcurrent]_vars

\* ------------------------------------------------------------------ registry: claims

\* a load has run
Loaded == last_refresh > 0

\* C1: under the default exclude_methods (the default RegistryConfig among
\* them), whatever lists were loaded, the registry holds no DELETE operation,
\* in any letter case
C1_NoDeleteByDefault ==
    config.exclude_methods = RegistryConfig.exclude_methods =>
        \A i \in 1..Len(operations) : Upper(operations[i].method) # "DELETE"

\* the default registry was loaded twice, the second list held a DELETE
\* operation next to one the registry kept
C1_Witness ==
    /\ config = RegistryConfig
    /\ last_refresh >= 2
    /\ \E i \in 1..Len(loadInput) : loadInput[i].method = "DELETE"
    /\ operations # <<>>

\* the operations of a list that no filter rule skips
Passing(cfg, ops) == {i \in 1..Len(ops) : ~ShouldSkip(cfg, ops[i])}

\* C4: a load of N operations, all passing the filters under distinct names,
\* into a registry with max_tools = k < N stores k tools and returns k
C4_CapIsExact ==
    ( /\ Loaded
      /\ config.max_tools < Len(loadInput)
      /\ Passing(config, loadInput) = 1..Len(loadInput)
      /\ \A i, j \in 1..Len(loadInput) :
            loadInput[i].tool_name = loadInput[j].tool_name => i = j )
    => /\ ToolCount(operations) = config.max_tools
       /\ loadCount = config.max_tools

\* the positions of a list whose operation load inserts: it passes the filters
\* and the loop has not stopped at the cap before it
Inserted(cfg, ops) ==
    {i \in Passing(cfg, ops) :
        LET before == Cardinality({j \in Passing(cfg, ops) : j < i})
        IN  before = 0 \/ before < cfg.max_tools}

\* C9: after a load the registry's names are exactly those of the operations
\* the load accepted from its own list, and every held operation is one of
\* that list
C9_LoadReplaces ==
    /\ ToolNames(operations) = {loadInput[i].tool_name : i \in Inserted(config, loadInput)}
    /\ Range(operations) \subseteq Range(loadInput)

\* a later load into a registry that held tools left a map that is neither
\* empty nor the whole list
C9_Witness ==
    /\ last_refresh >= 2
    /\ operations # <<>>
    /\ Len(operations) < Len(loadInput)

\* C10 as stated: with an include-list, every held operation's extension is
\* in the list
C10_AllHeldInIncludeList ==
    config.include_extensions # NoneList =>
        \A i \in 1..Len(operations) :
            operations[i].extension_name \in Range(config.include_extensions)

\* C10 amended: with an include-list, every held operation that has an
\* extension has it in the list, and an operation of the loaded list whose
\* extension is outside the list is not held
C10_ExtensionsHeldInIncludeList ==
    config.include_extensions # NoneList =>
        /\ \A i \in 1..Len(operations) :
              Truthy(operations[i].extension_name) =>
                  operations[i].extension_name \in Range(config.include_extensions)
        /\ \A i \in 1..Len(loadInput) :
              ( /\ Truthy(loadInput[i].extension_name)
                /\ loadInput[i].extension_name \notin Range(config.include_extensions) )
              => loadInput[i] \notin Range(operations)

\* an include-list registry loaded an operation of a foreign extension and
\* kept one of a listed extension
C10_Witness ==
    /\ config.include_extensions # NoneList
    /\ \E i \in 1..Len(loadInput) :
          /\ Truthy(loadInput[i].extension_name)
          /\ loadInput[i].extension_name \notin Range(config.include_extensions)
    /\ \E i \in 1..Len(operations) : Truthy(operations[i].extension_name)

\* ------------------------------------------------------------------ parser: claims

\* C2: the operations of one parse pass have pairwise distinct tool names
C2_ToolNamesDistinct ==
    phase \in {"parsed", "loaded"} =>
        \A i, j \in 1..Len(parsed) : parsed[i].tool_name = parsed[j].tool_name => i = j

\* C8: after a parse and a load no registry name is an administrative tool
\* name, and the names list_tools serves are pairwise distinct
C8_NoAdminNameDiscovered ==
    phase = "loaded" =>
        /\ ToolNames(operations) \cap META_TOOL_NAMES = {}
        /\ Distinct(ListedTools(operations))

\* a loaded registry holds "_list_extensions", built from a tag with an empty
\* slug: one underscore away from the administrative list_extensions
C8_Witness ==
    /\ phase = "loaded"
    /\ <<"", "list", "extensions">> \in ToolNames(operations)
    /\ Len(operations) >= 2

\* ------------------------------------------------------------------ dispatcher: claims

\* the argument keys the operation declares with location path (a
\* descriptor without a name declares the empty key)
DeclaredPath(op) ==
    {IF op.parameters[i].name = Absent THEN "" ELSE op.parameters[i].name :
        i \in {j \in 1..Len(op.parameters) : op.parameters[j].in = "path"}}

\* C3: every argument key is in exactly one of: declared as a path parameter
\* (dropped), the query set, the body set; the two sets take their values
\* from the arguments
C3_PartitionComplete ==
    separated.done =>
        /\ \A k \in DOMAIN arguments :
              Cardinality({c \in {"dropped", "query", "body"} :
                  \/ c = "dropped" /\ k \in DeclaredPath(dispatchOp)
                  \/ c = "query" /\ k \in DOMAIN separated.query
                  \/ c = "body" /\ k \in DOMAIN separated.body}) = 1
        /\ \A k \in DOMAIN separated.query : k \in DOMAIN arguments /\ separated.query[k] = arguments[k]
        /\ \A k \in DOMAIN separated.body : k \in DOMAIN arguments /\ separated.body[k] = arguments[k]

\* one call dropped a path argument, sent one to the query and one to the body
C3_Witness ==
    /\ separated.done
    /\ DOMAIN separated.query # {}
    /\ DOMAIN separated.body # {}
    /\ DOMAIN arguments \cap DeclaredPath(dispatchOp) # {}

\* ------------------------------------------------------------------ server: claims

\* C5: while the latest discovery attempt is one whose fetch failed, list_tools
\* serves the administrative tools alone and call_tool resolves no discovered name
C5_FailedFetchServesNoTools ==
    lastAttempt = "failed" =>
        /\ ListedTools(operations) = META_TOOL_DEFINITIONS
        /\ \A name \in CallNames \ META_TOOL_NAMES : Route(name, operations) = "unknown"

\* C6: whatever fails under it (an administrative handler, the client's
\* creation, the transport, the dispatcher), call_tool returns a text
C6_CallToolReturnsText ==
    response.request = "call_tool" => response.outcome = "text"

\* call_tool turned a failure in the dispatch branch, other than an LNbitsError,
\* into a text
C6_Witness ==
    /\ response.request = "call_tool"
    /\ response.route = "dispatch"
    /\ response.body = ErrorText

\* C7: call_tool answers "Unknown tool: <name>" without an HTTP request exactly
\* for the names that are neither administrative nor in the registry when it
\* looks; administrative names go to the administrative handler, the other
\* known names to the dispatcher
C7_UnknownIffNowhere ==
    /\ response.request = "call_tool" =>
          /\ (response.body = UnknownText(response.name) /\ response.http = 0)
                <=> (response.name \notin META_TOOL_NAMES /\ response.name \notin response.known)
          /\ response.route = "meta" <=> response.name \in META_TOOL_NAMES
          /\ response.route = "dispatch"
                <=> (response.name \notin META_TOOL_NAMES /\ response.name \in response.known)
    /\ \A t \in Tasks :
          /\ tasks[t].pc = "meta" => tasks[t].name \in META_TOOL_NAMES
          /\ tasks[t].pc \in {"client", "requesting"} =>
                (tasks[t].name \notin META_TOOL_NAMES /\ tasks[t].name \in tasks[t].known)

\* a name that is nowhere was looked up in a registry that holds tools, and the
\* unknown-tool text came back
C7_Witness ==
    /\ response.request = "call_tool"
    /\ response.route = "unknown"
    /\ response.known # {}
    /\ response.body = UnknownText(<<"no", "such", "tool">>)

\* ------------------------------------------------------------------ dispatch: claims

\* C11: dispatch hands the transport the one header Authorization: Bearer
\* <token> exactly when the token is a non-empty string and some declared
\* parameter is named usr or cookie_access_token; otherwise headers is None
C11_BearerIffTokenAndUserParam ==
    sentRequest.sent =>
        IF /\ access_token \notin {None, <<>>}
           /\ \E i \in 1..Len(dispatchOp.parameters) :
                 dispatchOp.parameters[i].name \in {"usr", "cookie_access_token"}
        THEN sentRequest.headers = [h \in {"Authorization"} |-> <<"Bearer", " ">> \o access_token]
        ELSE sentRequest.headers = NoneHeaders

\* a request went out with the header for an operation whose second parameter
\* is cookie_access_token
C11_Witness ==
    /\ sentRequest.sent
    /\ "Authorization" \in DOMAIN sentRequest.headers
    /\ Len(dispatchOp.parameters) = 2
    /\ dispatchOp.parameters[1].name = "a"
    /\ dispatchOp.parameters[2].name = "cookie_access_token"

\* the payment string _enrich_invoice derives the two fields from
PaymentString(fields) ==
    IF Get(fields, "payment_request") \notin {None, <<>>}
    THEN Get(fields, "payment_request")
    ELSE Get(fields, "bolt11")

\* C12: dispatch adds qr_code and lightning_uri, derived from payment_request
\* or else from bolt11, exactly when the tool is payments_create_payments, out
\* is falsy or absent and the result is a mapping with one of the two
\* non-empty; otherwise the result passes unchanged
C12_EnrichedIffInvoice ==
    (returned.done /\ ~returned.raised) =>
        IF /\ dispatchOp.tool_name = <<"payments", "create", "payments">>
           /\ ("out" \in DOMAIN arguments => ~PyTruthy(arguments["out"]))
           /\ returned.transport.kind = "dict"
           /\ PaymentString(returned.transport.fields) \notin {None, <<>>}
        THEN /\ returned.result.kind = "dict"
             /\ DOMAIN returned.result.fields =
                    DOMAIN returned.transport.fields \cup {"qr_code", "lightning_uri"}
             /\ \A k \in DOMAIN returned.transport.fields \ {"qr_code", "lightning_uri"} :
                    returned.result.fields[k] = returned.transport.fields[k]
             /\ returned.result.fields["lightning_uri"] =
                    <<"lightning", ":">> \o PaymentString(returned.transport.fields)
             /\ returned.result.fields["qr_code"] =
                    BaseUrl \o <<"/", "api", "/", "v1", "/", "qrcode", "/">>
                        \o Quote(PaymentString(returned.transport.fields))
        ELSE returned.result = returned.transport

\* an invoice came back with both payment strings and out = 0, and was
\* enriched
C12_Witness ==
    /\ returned.done
    /\ "out" \in DOMAIN arguments
    /\ arguments["out"] = IntValue("0")
    /\ returned.transport.kind = "dict"
    /\ {"payment_request", "bolt11"} \subseteq DOMAIN returned.transport.fields
    /\ returned.transport.fields["payment_request"] = <<"lnbc1">>
    /\ returned.transport.fields["bolt11"] = <<"lnbc2">>
    /\ returned.result.kind = "dict"
    /\ "lightning_uri" \in DOMAIN returned.result.fields

\* where the {name} placeholders of a template start
PlaceholderStarts(text) ==
    {i \in 1..(Len(text) - 2) :
        text[i] = "{" /\ IsNameToken(text[i + 1]) /\ text[i + 2] = "}"}

\* the names of the placeholders of a template
Placeholders(text) == {text[i + 1] : i \in PlaceholderStarts(text)}

RECURSIVE Concat(_)
Concat(pieces) == IF pieces = <<>> THEN <<>> ELSE Head(pieces) \o Concat(Tail(pieces))

\* what each token of a template becomes: a placeholder's "{" its argument's
\* str() or, without that argument, the placeholder itself; the rest of a
\* placeholder nothing; any other token itself
Piece(text, args, i) ==
    IF i \in PlaceholderStarts(text)
    THEN (IF text[i + 1] \in DOMAIN args THEN args[text[i + 1]].text ELSE SubSeq(text, i, i + 2))
    ELSE IF (i - 1) \in PlaceholderStarts(text) \/ (i - 2) \in PlaceholderStarts(text)
         THEN <<>>
         ELSE <<text[i]>>

\* C18, read as what every re-extraction needs: among the argument mappings
\* that supply all placeholders of the template, the substituted path
\* determines the str() of every placeholder's argument
C18_PathDeterminesArguments ==
    LET text == PathText(dispatchOp.path) IN
    ( /\ sentRequest.sent
      /\ Placeholders(text) # {}
      /\ Placeholders(text) \subseteq DOMAIN arguments )
    => \A other \in PathArguments :
          ( /\ Placeholders(text) \subseteq DOMAIN other
            /\ SubstitutePathParams(text, other) = sentRequest.path )
          => \A n \in Placeholders(text) : other[n].text = arguments[n].text

\* C19: in the path dispatch requests, every placeholder whose name is a key
\* of the arguments stands replaced by the argument's str(), every other
\* placeholder and every other character stands as in the template
C19_MissingPlaceholderVerbatim ==
    LET text == PathText(dispatchOp.path) IN
    sentRequest.sent =>
        sentRequest.path = Concat([i \in 1..Len(text) |-> Piece(text, arguments, i)])

\* a template with two placeholders was filled with one argument given and
\* the other missing
C19_Witness ==
    /\ sentRequest.sent
    /\ dispatchOp.path = TplRepo
    /\ DOMAIN arguments = {"org"}
    /\ arguments["org"] = StrValue(<<"a", "/", "b">>)

\* ------------------------------------------------------------------ extension: claims

\* C20: the parsed operation has an extension_name, which is the path's first
\* segment, exactly when the path's second segment is api and its first is
\* not api (the segments being those between the slashes, leading and
\* trailing slashes apart)
C20_ExtensionIffApiSecond ==
    (phase = "parsed" /\ Len(specDoc) = 1 /\ Len(parsed) = 1) =>
        LET segs == StripSplit(specDoc[1].path) IN
        IF Len(segs) >= 2 /\ segs[2] = <<"api">> /\ segs[1] # <<"api">>
        THEN parsed[1].extension_name = segs[1]
        ELSE parsed[1].extension_name = None

\* ------------------------------------------------------------------ schemas: claims

\* C13: the sanitizer is idempotent: sanitizing what it returned for a schema
\* returns that same schema, no key removed, no value rewritten, no type added.
C13_SanitizerIdempotent ==
    sanitized.calls = 2 => sanitized.twice = sanitized.once

\* a nested schema whose nullable type, whole float bound, example and missing
\* type the first pass rewrote, sanitized twice
C13_Witness ==
    /\ sanitized.calls = 2
    /\ sanitized.once # schemaIn
    /\ {"nullable", "type", "items"} \subseteq DOMAIN schemaIn
    /\ IsDict(schemaIn["items"])
    /\ {"minimum", "example", "description"} \subseteq DOMAIN schemaIn["items"][2]
    /\ "type" \notin DOMAIN schemaIn["items"][2]

\* the dict under key of d, or the empty dict
DictAt(d, key) == IF key \in DOMAIN d /\ IsDict(d[key]) THEN d[key][2] ELSE EmptyDict

\* the list under key of d, or the empty list
ListAt(d, key) == IF key \in DOMAIN d /\ IsList(d[key]) THEN d[key][2] ELSE <<>>

\* has nullable: true and a type
NullableTyped(d) ==
    "nullable" \in DOMAIN d /\ d["nullable"] = JBool(TRUE) /\ "type" \in DOMAIN d

\* the fragments of a schema the sanitizer reaches, each with the fragment found
\* in its place in the sanitized schema: the schema itself, the dicts under items
\* and additionalProperties, the dict values of properties, the dict members of
\* anyOf, oneOf and allOf (of anyOf only where the nullable rewrite leaves it)
RECURSIVE Reached(_, _)
Reached(in, out) ==
    {<<in, out>>}
    \cup UNION { IF key \in DOMAIN in /\ IsDict(in[key]) /\ key \in DOMAIN out /\ IsDict(out[key])
                 THEN Reached(in[key][2], out[key][2]) ELSE {} :
                 key \in {"items", "additionalProperties"} }
    \cup UNION { IF IsDict(DictAt(in, "properties")[k]) /\ k \in DOMAIN DictAt(out, "properties")
                    /\ IsDict(DictAt(out, "properties")[k])
                 THEN Reached(DictAt(in, "properties")[k][2], DictAt(out, "properties")[k][2])
                 ELSE {} :
                 k \in DOMAIN DictAt(in, "properties") }
    \cup UNION { UNION { IF IsDict(ListAt(in, key)[i]) /\ i \in DOMAIN ListAt(out, key)
                            /\ IsDict(ListAt(out, key)[i])
                         THEN Reached(ListAt(in, key)[i][2], ListAt(out, key)[i][2])
                         ELSE {} :
                         i \in DOMAIN ListAt(in, key) } :
                 key \in IF NullableTyped(in) THEN {"oneOf", "allOf"}
                         ELSE {"anyOf", "oneOf", "allOf"} }

\* C14: a fragment with nullable: true and a type T, at any nesting level the
\* sanitizer reaches, comes out with no nullable key, no type key, and an anyOf
\* that is exactly [{type: T}, {type: "null"}].
C14_NullableBecomesAnyOf ==
    sanitized.calls >= 1 =>
        \A pair \in Reached(schemaIn, sanitized.once) :
            NullableTyped(pair[1]) =>
                /\ "nullable" \notin DOMAIN pair[2]
                /\ "type" \notin DOMAIN pair[2]
                /\ "anyOf" \in DOMAIN pair[2]
                /\ pair[2]["anyOf"] = JArray(<<JObject([t \in {"type"} |-> pair[1]["type"]]),
                                               JObject([t \in {"type"} |-> JString("null")])>>)

\* a nullable array whose items are a nullable integer, sanitized
C14_Witness ==
    /\ sanitized.calls >= 1
    /\ NullableTyped(schemaIn)
    /\ NullableTyped(DictAt(schemaIn, "items"))
    /\ <<DictAt(schemaIn, "items"), DictAt(sanitized.once, "items")>>
           \in Reached(schemaIn, sanitized.once)

\* the property schemas directly under a schema: the dict values of properties,
\* the dict under items, the dict members of anyOf, oneOf and allOf
Children(d) ==
    { DictAt(d, "properties")[k][2] :
          k \in { n \in DOMAIN DictAt(d, "properties") : IsDict(DictAt(d, "properties")[n]) } }
    \cup (IF "items" \in DOMAIN d /\ IsDict(d["items"]) THEN {d["items"][2]} ELSE {})
    \cup UNION { { ListAt(d, key)[i][2] :
                      i \in { j \in DOMAIN ListAt(d, key) : IsDict(ListAt(d, key)[j]) } } :
                 key \in {"anyOf", "oneOf", "allOf"} }

\* the property schemas at every depth under a schema
RECURSIVE Descendants(_)
Descendants(d) == Children(d) \cup UNION { Descendants(c) : c \in Children(d) }

\* C15: in every built tool input schema, every non-empty property schema at
\* every depth (under properties, items, anyOf, oneOf, allOf) carries type,
\* anyOf, oneOf, allOf or $ref.
C15_NestedSchemasTyped ==
    inputSchema # NoSchema =>
        \A d \in Descendants(inputSchema) :
            DOMAIN d # {} => DOMAIN d \cap {"type", "anyOf", "oneOf", "allOf", "$ref"} # {}

\* the OpenAPI-only keywords
OPENAPI_ONLY_KEYWORDS ==
    {"nullable", "example", "examples", "deprecated", "readOnly", "writeOnly",
     "discriminator", "xml", "externalDocs"}

\* every key of every mapping inside a value, walking mappings and lists
RECURSIVE KeysOf(_)
KeysOf(v) ==
    IF IsDict(v) THEN DOMAIN v[2] \cup UNION { KeysOf(v[2][k]) : k \in DOMAIN v[2] }
    ELSE IF IsList(v) THEN UNION { KeysOf(v[2][i]) : i \in DOMAIN v[2] }
    ELSE {}

\* C16: in every built tool input schema, no mapping at any depth has an
\* OpenAPI-only keyword among its keys.
C16_NoOpenApiKeyword ==
    inputSchema # NoSchema => KeysOf(JObject(inputSchema)) \cap OPENAPI_ONLY_KEYWORDS = {}

\* the parameter is named usr or cookie_access_token, or its location is cookie
IsHiddenParam(param) ==
    \/ "name" \in DOMAIN param /\ param["name"] \in {JString("usr"), JString("cookie_access_token")}
    \/ "in" \in DOMAIN param /\ param["in"] = JString("cookie")

\* the operation without its hidden parameters
WithoutHidden(op) ==
    SchemaOperation(SelectSeq(op.parameters, LAMBDA param : ~IsHiddenParam(param)),
                    op.request_body_schema)

\* the names the parameters that are not hidden, and the body, bring
ShownNames(op) ==
    { IF "name" \in DOMAIN op.parameters[i] THEN op.parameters[i]["name"][2] ELSE "" :
          i \in { j \in DOMAIN op.parameters : ~IsHiddenParam(op.parameters[j]) } }
    \cup (IF IsDict(op.request_body_schema)
          THEN DOMAIN DictAt(op.request_body_schema[2], "properties") ELSE {})

\* C17: a parameter named usr or cookie_access_token, and a parameter located
\* in a cookie, adds nothing to properties and nothing to required: the schema
\* is the one built without them, and its entries come from the other
\* parameters and the body.
C17_HiddenParamsContributeNothing ==
    inputSchema # NoSchema =>
        /\ inputSchema = BuildInputSchema(WithoutHidden(schemaOp))
        /\ DOMAIN inputSchema["properties"][2] \subseteq ShownNames(schemaOp)
        /\ \A i \in DOMAIN ListAt(inputSchema, "required") :
               ListAt(inputSchema, "required")[i][2] \in ShownNames(schemaOp)

\* a required parameter named usr and a required cookie parameter named a, built
C17_Witness ==
    /\ inputSchema # NoSchema
    /\ \E i, j \in DOMAIN schemaOp.parameters :
          /\ schemaOp.parameters[i] = DictOf({<<"name", JString("usr")>>, <<"in", JString("query")>>,
                                              <<"required", JBool(TRUE)>>})
          /\ schemaOp.parameters[j] = DictOf({<<"name", JString("a")>>, <<"in", JString("cookie")>>,
                                              <<"required", JBool(TRUE)>>})
    /\ "a" \notin DOMAIN inputSchema["properties"][2]

\* ------------------------------------------------------------------ tool names: claims

\* the segments of a path: the pieces between its slashes that are not empty
Segments(path) == SelectSeq(path, LAMBDA sg : sg # <<>>)

\* the slug of the last segment that is not a path parameter, or resource
ResourcePart(path) ==
    LET named == SelectSeq(Segments(path), LAMBDA sg : ~IsPathParam(sg))
    IN  IF named # <<>> THEN Slugify(named[Len(named)]) ELSE <<"resource">>

\* get, create, update, update, delete; list for a GET whose final segment is
\* not a path parameter and whose resource is not wallet
ActionPart(method, path) ==
    IF /\ method = "get"
       /\ Segments(path) = <<>> \/ ~IsPathParam(Segments(path)[Len(Segments(path))])
       /\ ResourcePart(path) # <<"wallet">>
    THEN "list"
    ELSE METHOD_ACTIONS[method]

\* C21: a tool name is the tag slug, the action part and the resource part: the
\* action is get, create, update, update, delete by method, list for a GET whose
\* final path segment is not a path parameter and whose resource slug is not
\* wallet; the resource is the slug of the last segment that is not a path
\* parameter, or resource when the path has none.
C21_ActionAndResourceParts ==
    phase = "parsed" /\ Len(specDoc) = 1 /\ Len(specDoc[1].item) = 1 /\ Len(parsed) = 1 =>
        LET e == specDoc[1].item[1]
            tag == IF e.tags # <<>> THEN e.tags[1] ELSE <<"other">>
        IN  parsed[1].tool_name =
                NameWords(Slugify(tag)) \o <<ActionPart(e.key, specDoc[1].path)>>
                    \o NameWords(ResourcePart(specDoc[1].path))

\* ------------------------------------------------------------------ resolver: claims

\* the outermost _resolve_schema has returned
ResolveDone == pendingCalls = <<>> /\ resolvedSchema # NoSchema

\* no call runs deeper than one past the cap
CapRespected == \A i \in DOMAIN pendingCalls : pendingCalls[i][2] <= MaxResolveDepth + 1

\* C22: reference resolution terminates for every schema set, self-referential
\* and mutually cyclic references included: no call goes deeper than one past
\* depth 15, and the outermost call returns.
C22_ResolutionTerminates == []CapRespected /\ <>ResolveDone

\* A and B refer to each other, and the call returned with a reference left as
\* it was past the cap
C22_Witness ==
    /\ ResolveDone
    /\ resolveIn.schemas["A"] = [k \in {"$ref"} |-> RefB]
    /\ resolveIn.schemas["B"] = [k \in {"properties"} |->
           JObject([n \in {"p"} |-> JObject([r \in {"$ref"} |-> RefA])])]
    /\ resolveIn.schema = [k \in {"$ref"} |-> RefA]
    /\ resolvedSchema # resolveIn.schema
    /\ "$ref" \in KeysOf(JObject(resolvedSchema))

\* ------------------------------------------------------------------ dispatch errors: claims

\* C23: a dispatch issues exactly one transport request; when the request
\* raises, dispatch raises that same error, with no second request, no
\* enrichment and no result.
C23_ErrorPropagatesUnchanged ==
    /\ returned.requests = (IF sentRequest.sent THEN 1 ELSE 0)
    /\ returned.done => returned.requests = 1
    /\ returned.transportError # NoError =>
           /\ returned.done
           /\ returned.raised
           /\ returned.error = returned.transportError
           /\ returned.result = NoReturn.result

\* the request of an invoice-creating operation raised
C23_Witness ==
    /\ returned.transportError = "LNbitsError: API request failed: 404"
    /\ returned.raised
    /\ dispatchOp.tool_name = <<"payments", "create", "payments">>
    /\ returned.requests = 1

\* ------------------------------------------------------------------ discovery: claims

\* task t starts a discovery in this step, as list_tools or as another caller
StartsFetch(t) == tasks[t].pc = "idle" /\ tasks'[t].pc = "fetching"

\* C24 (as stated): once a list_tools call has returned, no later list_tools
\* call fetches the spec.
C24_ListFetchesOnFirstCallOnly ==
    [][\A t \in Tasks :
          (response.request = "list_tools" /\ StartsFetch(t)) => tasks'[t].kind # "list"]_vars

\* C24 (amended): list_tools fetches the spec exactly while no discovery has
\* succeeded; once one has, the flag stays set, no list_tools call fetches
\* again, and a fetch is started only by refresh_tools or a configuration change.
C24_ListFetchesUntilDiscovered ==
    [][/\ discovery_done => discovery_done'
       /\ \A t \in Tasks :
             /\ (StartsFetch(t) /\ tasks'[t].kind = "list") => ~discovery_done
             /\ (StartsFetch(t) /\ discovery_done) => tasks'[t].kind \in {"refresh", "configure"}
       /\ (tasks' = tasks /\ response'.request = "list_tools" /\ response' # response)
              => discovery_done]_vars

\* a list_tools call answered from the registry, after a discovery succeeded
C24_Witness ==
    /\ discovery_done
    /\ lastAttempt = "ok"
    /\ response.request = "list_tools"
    /\ response.http = 0
    /\ Len(operations) > 0

\* C27: the tool_count that refresh_tools reports equals the number of
\* discovered tools the registry holds right after that refresh, whether the
\* fetch succeeded or failed.
C27_RefreshReportsRegistryCount ==
    [][(response' # response /\ response'.request = "call_tool"
           /\ response'.name = <<"refresh", "tools">> /\ response'.outcome = "text")
          => response'.count = ToolCount(operations')]_vars

\* ------------------------------------------------------------------ registry: load count

\* the operations of a list at the given positions, in input order
RECURSIVE Picked(_, _, _)
Picked(ops, keep, i) ==
    IF i > Len(ops) THEN <<>>
    ELSE IF i \in keep THEN <<ops[i]>> \o Picked(ops, keep, i + 1)
    ELSE Picked(ops, keep, i + 1)

\* C30: after a load, the count it returned is the registry's tool_count and
\* the stored operations are the accepted operations of the list, in input
\* order, also when two operations of the list share a tool_name
C30_CountIsToolCount ==
    Loaded =>
        /\ loadCount = ToolCount(operations)
        /\ operations = Picked(loadInput, Inserted(config, loadInput), 1)

\* ------------------------------------------------------------------ dispatch: substituted arguments

\* the arguments whose value _substitute_path_params put into the path
Substituted(op, args) == DOMAIN args \cap Placeholders(PathText(op.path))

\* C28: in every dispatch, an argument that was substituted into a placeholder
\* of the path is in neither the query set nor the body set of the request,
\* whether or not the parameter list declares it as a path parameter
C28_SubstitutedNotSentAgain ==
    sentRequest.sent =>
        \A k \in Substituted(dispatchOp, arguments) :
            /\ k \notin DOMAIN sentRequest.params
            /\ k \notin DOMAIN sentRequest.json

\* ------------------------------------------------------------------ server: access token

\* C29: when call_tool dispatches an operation that declares usr or
\* cookie_access_token and the configuration holds an access token, the
\* request carries the header Authorization: Bearer <token>
C29_CallToolSendsBearer ==
    ( /\ sentRequest.sent
      /\ NeedsUserAuth(dispatchOp)
      /\ Truthy(configured_token) )
    => sentRequest.headers = [h \in {"Authorization"} |-> <<"Bearer", " ">> \o configured_token]

\* ------------------------------------------------------------------ server: interleaving claims

\* a step in which list_tools or call_tool reads the registry
ReadsRegistry ==
    \E t \in Handlers :
        \/ ListTools(t) /\ discovery_done
        \/ NotifyDone(t) /\ tasks[t].kind = "list"
        \/ FetchFails(t) /\ tasks[t].kind = "list"
        \/ \E name \in ConcurrentNames : CallDiscovered(t, name)

\* the map a complete load of the latest list leaves
CompleteMap == LoadResult(config, <<>>, loadInput).operations

\* C25: list_tools and call_tool read the registry only when no load is
\* between its clear and its last insert, and the map they read is the
\* complete result of a load
C25_ReadersSeeCompleteMap ==
    [][ReadsRegistry => /\ \A u \in Handlers : ~Loading(u)
                        /\ operations = CompleteMap]_vars

\* a load has cleared the map and inserted one of two operations while
\* another handler, a call_tool that read the earlier map, waits at an await
C25_Witness ==
    \E t, u \in Handlers :
        /\ Loading(t)
        /\ operations # <<>>
        /\ operations # CompleteMap
        /\ tasks[u].pc = "client"
        /\ tasks[u].known # {}

\* the list_tools handlers that are awaiting the fetch of a discovery
ListFetching == {t \in Handlers : tasks[t].pc = "fetching" /\ tasks[t].kind = "list"}

\* C26: before any discovery has completed, at most one list_tools is
\* awaiting a fetch
C26_OneFetchBeforeDiscovery ==
    ~discovery_done => Cardinality(ListFetching) <= 1

====
